---- MODULE Spec2Model ----
(***************************************************************************)
(* A model of yahmm (src/yahmm/yahmm.pyx): the builder graph of a Model,   *)
(* Model.bake and the dynamic-programming kernels that run on the baked    *)
(* model (forward, backward, viterbi, forward_backward).                   *)
(*                                                                         *)
(* Numbers.  The code works on C doubles that hold log-probabilities.  A   *)
(* double is modelled by the exact value it stands for:                    *)
(*     <<n, d>> with d > 0   the log of the rational n/d (lowest terms);   *)
(*     <<0, 1>>              NEGINF, the log of 0;                         *)
(*     <<1, 0>>              INF;                                          *)
(*     <<0, 0>>              NaN.                                          *)
(* Adding two logs multiplies the rationals, subtracting divides them, and *)
(* pair_lse adds them.  cexp and clog change between the log and the       *)
(* linear reading of the same rational.  Rounding of doubles (and the      *)
(* round(.., 8) of bake) is not modelled: arithmetic is exact.             *)
(***************************************************************************)
EXTENDS Integers, Sequences, FiniteSets, TLC

(***************************************************************************)
(* Exact arithmetic on the modelled doubles                                *)
(***************************************************************************)
RECURSIVE GCD(_, _)
GCD(a, b) == IF b = 0 THEN a ELSE GCD(b, a % b)

Q(n, d) == LET g == GCD(n, d) IN <<n \div g, d \div g>>

NEGINF == <<0, 1>>
INF == <<1, 0>>
NaN == <<0, 0>>
ZeroLog == <<1, 1>>

IsNaN(x) == x = NaN
IsNum(x) == x[2] > 0

\* x + y on log values
LAdd(x, y) ==
    IF IsNaN(x) \/ IsNaN(y) THEN NaN
    ELSE IF x = INF THEN (IF y = NEGINF THEN NaN ELSE INF)
    ELSE IF y = INF THEN (IF x = NEGINF THEN NaN ELSE INF)
    ELSE Q(x[1] * y[1], x[2] * y[2])

\* x - y on log values
LSub(x, y) ==
    IF IsNaN(x) \/ IsNaN(y) THEN NaN
    ELSE IF y = INF THEN (IF x = INF THEN NaN ELSE NEGINF)
    ELSE IF y = NEGINF THEN (IF x = NEGINF THEN NaN ELSE INF)
    ELSE IF x = INF THEN INF
    ELSE Q(x[1] * y[2], x[2] * y[1])

\* x + y on linear values (a C double sum)
PAdd(x, y) ==
    IF IsNaN(x) \/ IsNaN(y) THEN NaN
    ELSE IF x = INF \/ y = INF THEN INF
    ELSE Q(x[1] * y[2] + y[1] * x[2], x[2] * y[2])

\* x > y, false when either side is NaN
Gt(x, y) ==
    IF IsNaN(x) \/ IsNaN(y) THEN FALSE
    ELSE IF x = INF THEN y # INF
    ELSE IF y = INF THEN FALSE
    ELSE x[1] * y[2] > y[1] * x[2]

\* x <= y, false when either side is NaN
Le(x, y) == ~IsNaN(x) /\ ~IsNaN(y) /\ ~Gt(x, y)

pair_lse(x, y) ==
    IF x = INF \/ y = INF THEN INF
    ELSE IF x = NEGINF THEN y
    ELSE IF y = NEGINF THEN x
    ELSE PAdd(x, y)

\* log(value) of the module: clog(x) if x > 0 else NEGINF
log(x) == IF Gt(x, <<0, 1>>) THEN x ELSE NEGINF

clog(x) == x
cexp(x) == x

Max(x, y) == IF Gt(y, x) THEN y ELSE x

(***************************************************************************)
(* The bounded universe of State objects and add_transition arguments      *)
(***************************************************************************)
\* State objects: 1 = Model.start, 2 = Model.end, 3..4 silent, 5..8 emitting
Nodes == 1..8
start == 1
end == 2
Symbols == {1, 2}
DistIds == {"A", "B"}

\* State.distribution: "None" for a silent state; states 5, 6 and 8 are tied
distribution(s) ==
    CASE s = 5 -> "A" [] s = 6 -> "A" [] s = 7 -> "B" [] s = 8 -> "A"
      [] OTHER -> "None"

\* State.weight
weight(s) == IF s = 6 THEN <<2, 1>> ELSE <<1, 1>>

is_silent(s) == distribution(s) = "None"

\* DiscreteDistribution parameters at construction: symbol -> probability
InitParameters ==
    [d \in DistIds |->
        IF d = "A" THEN [c \in {1, 2} |-> <<1, 2>>]
        ELSE [c \in {1} |-> <<1, 1>>]]

\* The (a, b, probability) triples add_transition is called with
EdgeChoices ==
    { <<1, 5, <<1, 2>> >>, <<1, 3, <<1, 2>> >>, <<1, 7, <<1, 2>> >>,
      <<3, 5, <<1, 1>> >>, <<3, 4, <<1, 2>> >>, <<4, 2, <<1, 1>> >>,
      <<5, 5, <<1, 2>> >>, <<5, 6, <<1, 2>> >>, <<5, 2, <<1, 2>> >>,
      <<6, 2, <<1, 2>> >>, <<7, 2, <<1, 4>> >>, <<2, 3, <<1, 1>> >>,
      <<4, 3, <<1, 2>> >>, <<1, 6, <<1, 2>> >>, <<1, 4, <<1, 2>> >>,
      <<6, 7, <<1, 4>> >> }

StateChoices == {7}

\* the add_transition calls of the models the kernels are run on
KernelEdgeChoices ==
    { <<1, 5, <<1, 2>> >>, <<1, 3, <<1, 2>> >>, <<3, 5, <<1, 1>> >>,
      <<5, 5, <<1, 2>> >>, <<5, 6, <<1, 2>> >>, <<5, 2, <<1, 2>> >>,
      <<6, 2, <<1, 2>> >>, <<1, 7, <<1, 2>> >>, <<7, 2, <<1, 4>> >> }

MaxEdges == 4
MaxKernelEdges == 3
MaxSeqLen == 2

MergePolicies == {"all", "partial", "None"}

(***************************************************************************)
(* Helpers on sets and sequences                                           *)
(***************************************************************************)
MinOf(S) == CHOOSE x \in S : \A y \in S : x <= y

RECURSIVE SortedSeq(_)
SortedSeq(S) == IF S = {} THEN <<>> ELSE <<MinOf(S)>> \o SortedSeq(S \ {MinOf(S)})

EdgeLess(e1, e2) == e1[1] < e2[1] \/ (e1[1] = e2[1] /\ e1[2] < e2[2])

RECURSIVE SortedEdges(_)
SortedEdges(S) ==
    IF S = {} THEN <<>>
    ELSE LET m == CHOOSE x \in S : \A y \in S : x = y \/ EdgeLess(x, y)
         IN <<m>> \o SortedEdges(S \ {m})

\* code arrays are 0-based: At(a, i) is a[i]
At(a, i) == a[i + 1]
Put(a, i, v) == [a EXCEPT ![i + 1] = v]

RECURSIVE CumSum(_)
CumSum(a) ==
    IF Len(a) = 0 THEN <<>>
    ELSE LET p == CumSum(SubSeq(a, 1, Len(a) - 1))
         IN Append(p, (IF Len(p) = 0 THEN 0 ELSE p[Len(p)]) + a[Len(a)])

IndexOf(seq, x) == (CHOOSE i \in 1..Len(seq) : seq[i] = x) - 1

Range(seq) == {seq[i] : i \in 1..Len(seq)}

(***************************************************************************)
(* The builder graph (networkx.DiGraph): a record [nodes, edge] where edge *)
(* maps a pair <<a, b>> to its data [weight, pseudocount]                  *)
(***************************************************************************)
\* graph.nodes(): the nodes in the order of the node dictionary
nodes(g) == SortedSeq(g.nodes)

\* graph.edges(): the edges in the order of the adjacency dictionaries
edges(g) == SortedEdges(DOMAIN g.edge)

Restrict(f, D) == [x \in D |-> f[x]]

remove_node(g, a) ==
    [nodes |-> g.nodes \ {a},
     edge |-> Restrict(g.edge, {p \in DOMAIN g.edge : p[1] # a /\ p[2] # a})]

remove_edge(g, x, y) ==
    [g EXCEPT !.edge = Restrict(g.edge, DOMAIN g.edge \ {<<x, y>>})]

add_edge(g, x, y, w, pc) ==
    [nodes |-> g.nodes \cup {x, y},
     edge |-> [p \in DOMAIN g.edge \cup {<<x, y>>} |->
                 IF p = <<x, y>> THEN [weight |-> w, pseudocount |-> pc]
                 ELSE g.edge[p]]]

EmptyGraph == [nodes |-> {}, edge |-> <<>>]

(***************************************************************************)
(* Model.bake, step by step                                                *)
(***************************************************************************)
\* One round of 'while merge == "all"' (orphan removal).  cnt = <<in_edge_count,
\* out_edge_count>>: the arrays are allocated once before the loop, indexed by
\* the position of a state in this round's prestates, and never reset.
RECURSIVE OrphanRemoval(_, _)
OrphanRemoval(g, cnt) ==
    LET prestates == nodes(g)
        n == Len(prestates)
        inc == [i \in 1..Len(cnt[1]) |->
                  IF i <= n
                  THEN cnt[1][i] + Cardinality({p \in DOMAIN g.edge : p[2] = prestates[i]})
                  ELSE cnt[1][i]]
        outc == [i \in 1..Len(cnt[2]) |->
                  IF i <= n
                  THEN cnt[2][i] + Cardinality({p \in DOMAIN g.edge : p[1] = prestates[i]})
                  ELSE cnt[2][i]]
        removed == {prestates[i] : i \in {j \in 1..n :
                        /\ prestates[j] # start /\ prestates[j] # end
                        /\ (inc[j] = 0 \/ outc[j] = 0)}}
        g2 == [nodes |-> g.nodes \ removed,
               edge |-> Restrict(g.edge, {p \in DOMAIN g.edge :
                                    p[1] \notin removed /\ p[2] \notin removed})]
    IN IF removed = {} THEN g ELSE OrphanRemoval(g2, <<inc, outc>>)

OrphanStep(g, merge) ==
    IF merge = "all"
    THEN LET z == [i \in 1..Cardinality(g.nodes) |-> 0] IN OrphanRemoval(g, <<z, z>>)
    ELSE g

\* sum of e ** weight over the out-edges of state
RECURSIVE SumWeights(_, _)
SumWeights(g, ps) ==
    IF ps = {} THEN <<0, 1>>
    ELSE LET p == CHOOSE x \in ps : TRUE
         IN PAdd(cexp(g.edge[p].weight), SumWeights(g, ps \ {p}))

OutSum(g, state) == SumWeights(g, {p \in DOMAIN g.edge : p[1] = state})

\* the outgoing normalization: every state but end whose out-edges do not sum
\* to 1 has log(out_edges) subtracted from each out-edge weight
Normalize(g) ==
    [g EXCEPT !.edge =
        [p \in DOMAIN g.edge |->
            LET out_edges == OutSum(g, p[1])
            IN IF out_edges # <<1, 1>> /\ p[1] # end
               THEN [g.edge[p] EXCEPT !.weight = LSub(g.edge[p].weight, log(out_edges))]
               ELSE g.edge[p]]]

\* the inner loop of the merge: every edge x -> a of the snapshot es is removed
\* and added again as x -> b.  e is the data of the edge a -> b: the live
\* dictionary while a -> b is in the graph (add_edge updates it in place), the
\* values it had (e0) once a self-loop a -> a has been removed.
RECURSIVE Redirect(_, _, _, _, _, _, _)
Redirect(g, g0, es, i, a, b, e0) ==
    IF i > Len(es) THEN [g |-> g, count |-> 0]
    ELSE IF es[i][2] # a THEN Redirect(g, g0, es, i + 1, a, b, e0)
    ELSE LET x == es[i][1]
             d == g0.edge[es[i]]
             g1 == remove_edge(g, x, a)
             e == IF <<a, b>> \in DOMAIN g1.edge THEN g1.edge[<<a, b>>] ELSE e0
             g2 == add_edge(g1, x, b, d.weight, Max(e.pseudocount, d.pseudocount))
             r == Redirect(g2, g0, es, i + 1, a, b, e0)
         IN [g |-> r.g, count |-> r.count + 1]

\* one pass of 'for a, b, e in self.graph.edges(data=True)' over the snapshot es
RECURSIVE MergePass(_, _, _, _)
MergePass(g, es, i, merge) ==
    IF i > Len(es) THEN [g |-> g, count |-> 0]
    ELSE LET a == es[i][1]
             b == es[i][2]
         IN IF a \notin g.nodes \/ b \notin g.nodes
            THEN MergePass(g, es, i + 1, merge)
            ELSE IF a = start \/ b = end
            THEN MergePass(g, es, i + 1, merge)
            ELSE IF /\ g.edge[<<a, b>>].weight = ZeroLog
                    /\ is_silent(a)
                    /\ (merge = "all" \/ (merge = "partial" /\ is_silent(b)))
            THEN LET r == Redirect(g, g, edges(g), 1, a, b, g.edge[<<a, b>>])
                     g3 == remove_node(r.g, a)
                     rest == MergePass(g3, es, i + 1, merge)
                 IN [g |-> rest.g, count |-> rest.count + r.count]
            ELSE MergePass(g, es, i + 1, merge)

\* 'while merge in ["all", "partial"]': passes until one makes no merge
RECURSIVE MergeLoop(_, _)
MergeLoop(g, merge) ==
    IF merge \notin {"all", "partial"} THEN g
    ELSE LET r == MergePass(g, edges(g), 1, merge)
         IN IF r.count = 0 THEN r.g ELSE MergeLoop(r.g, merge)

\* the graph after the three graph-rewriting steps of bake
BakedGraph(g, merge) == MergeLoop(Normalize(OrphanStep(g, merge)), merge)

\* the permutations of a finite set, as sequences
RECURSIVE Perms(_)
Perms(S) ==
    IF S = {} THEN {<<>>}
    ELSE UNION {{<<x>> \o q : q \in Perms(S \ {x})} : x \in S}

\* networkx.topological_sort(silent_subgraph): an order of the silent states in
\* which every edge of the subgraph goes forward; no order (the call raises
\* NetworkXUnfeasible) when the subgraph has a cycle or a self-loop
topological_sort(g, silent_states) ==
    {o \in Perms(silent_states) :
        \A p \in DOMAIN g.edge :
            (p[1] \in silent_states /\ p[2] \in silent_states)
                => \E i, j \in 1..Len(o) : i < j /\ o[i] = p[1] /\ o[j] = p[2]}

\* the silent states appended in node order, not in sorted order
StateOrderUnsorted(g, silent_states_sorted) ==
    SelectSeq(nodes(g), LAMBDA s : ~is_silent(s))
        \o SelectSeq(nodes(g), LAMBDA s : is_silent(s))

\* self.states: the emitting states in node order, then the sorted silent states
StateOrder(g, silent_states_sorted) ==
    SelectSeq(nodes(g), LAMBDA s : ~is_silent(s)) \o silent_states_sorted

\* the rows of the tie table: tied_state_count after the cumulative sum
tied_state_count(states, silent_start) ==
    CumSum([i1 \in 1..(silent_start + 1) |->
        IF i1 = 1 THEN 0
        ELSE Cardinality({j \in 0..(silent_start - 1) :
                j # i1 - 2
                /\ distribution(At(states, i1 - 2)) = distribution(At(states, j))})])

\* the index pos itself, whatever it holds
FindSlotNoWalk(arr, pos, limit) == pos

\* the first index from pos on that holds -1, stopping at limit
RECURSIVE FindSlot(_, _, _)
FindSlot(arr, pos, limit) ==
    IF At(arr, pos) = -1 THEN pos
    ELSE IF pos = limit THEN pos
    ELSE FindSlot(arr, pos + 1, limit)

\* the loop that fills self.tied, over the pairs (i, j) in row-major order
RECURSIVE FillTied(_, _, _, _, _)
FillTied(tied, counts, states, silent_start, ij) ==
    IF ij >= silent_start * silent_start THEN tied
    ELSE LET i == ij \div silent_start
             j == ij % silent_start
         IN IF i # j /\ distribution(At(states, i)) = distribution(At(states, j))
            THEN FillTied(Put(tied, FindSlot(tied, At(counts, i), Len(tied)), j),
                          counts, states, silent_start, ij + 1)
            ELSE FillTied(tied, counts, states, silent_start, ij + 1)

\* the loop over graph.edges_iter(data=True) that fills the in- and out-edge
\* tables; t holds the six edge arrays
RECURSIVE FillEdges(_, _, _, _, _, _, _)
FillEdges(t, g, es, i, indices, in_edge_count, out_edge_count) ==
    IF i > Len(es) THEN t
    ELSE LET a == es[i][1]
             b == es[i][2]
             data == g.edge[es[i]]
             si == FindSlot(t.in_transitions, At(in_edge_count, indices[b]),
                            At(in_edge_count, indices[b] + 1))
             so == FindSlot(t.out_transitions, At(out_edge_count, indices[a]),
                            At(out_edge_count, indices[a] + 1))
             t2 == [in_transitions |-> Put(t.in_transitions, si, indices[a]),
                    in_transition_log_probabilities |->
                        Put(t.in_transition_log_probabilities, si, data.weight),
                    in_transition_pseudocounts |->
                        Put(t.in_transition_pseudocounts, si, data.pseudocount),
                    out_transitions |-> Put(t.out_transitions, so, indices[b]),
                    out_transition_log_probabilities |->
                        Put(t.out_transition_log_probabilities, so, data.weight),
                    out_transition_pseudocounts |->
                        Put(t.out_transition_pseudocounts, so, data.pseudocount)]
         IN FillEdges(t2, g, es, i + 1, indices, in_edge_count, out_edge_count)

\* the compiled model bake builds from the rewritten graph g and the sorted
\* silent states; end must still be in the graph
Compile(g, silent_states_sorted) ==
    LET normal_states == SelectSeq(nodes(g), LAMBDA s : ~is_silent(s))
        silent_start == Len(normal_states)
        states == StateOrder(g, silent_states_sorted)
        n == Len(states)
        indices == [s \in g.nodes |-> IndexOf(states, s)]
        counts == tied_state_count(states, silent_start)
        tied == FillTied([k \in 1..counts[Len(counts)] |-> -1], counts, states,
                         silent_start, 0)
        es == edges(g)
        m == Len(es)
        in_count == [k \in 1..(n + 1) |->
            IF k = 1 THEN 0
            ELSE Cardinality({p \in DOMAIN g.edge : indices[p[2]] = k - 2})]
        out_count == [k \in 1..(n + 1) |->
            IF k = 1 THEN 0
            ELSE Cardinality({p \in DOMAIN g.edge : indices[p[1]] = k - 2})]
        in_edge_count == CumSum(in_count)
        out_edge_count == CumSum(out_count)
        t0 == [in_transitions |-> [k \in 1..m |-> -1],
               in_transition_log_probabilities |-> [k \in 1..m |-> <<0, 1>>],
               in_transition_pseudocounts |-> [k \in 1..m |-> <<0, 1>>],
               out_transitions |-> [k \in 1..m |-> -1],
               out_transition_log_probabilities |-> [k \in 1..m |-> <<0, 1>>],
               out_transition_pseudocounts |-> [k \in 1..m |-> <<0, 1>>]]
        t == FillEdges(t0, g, es, 1, indices, in_edge_count, out_edge_count)
    IN [states |-> states,
        silent_start |-> silent_start,
        tied_state_count |-> counts,
        tied |-> tied,
        state_weights |-> [k \in 1..silent_start |-> clog(weight(states[k]))],
        in_edge_count |-> in_edge_count,
        out_edge_count |-> out_edge_count,
        in_transitions |-> t.in_transitions,
        in_transition_log_probabilities |-> t.in_transition_log_probabilities,
        in_transition_pseudocounts |-> t.in_transition_pseudocounts,
        out_transitions |-> t.out_transitions,
        out_transition_log_probabilities |-> t.out_transition_log_probabilities,
        out_transition_pseudocounts |-> t.out_transition_pseudocounts,
        finite |-> IF At(in_count, indices[end] + 1) = 0 THEN 0 ELSE 1,
        start_index |-> indices[start],
        end_index |-> indices[end]]

NoModel == [states |-> <<>>]

(***************************************************************************)
(* The kernels.  M is the compiled model, P the distribution parameters,   *)
(* a table is a sequence of rows, a row a sequence of doubles.             *)
(***************************************************************************)
\* DiscreteDistribution.log_probability(symbol)
log_probability(params, symbol) ==
    IF symbol \in DOMAIN params THEN log(params[symbol]) ELSE NEGINF

EmissionTableWeighted(M, P, sequence, with_weights) ==
    [k1 \in 1..Len(sequence) |->
        [i1 \in 1..M.silent_start |->
            LAdd(log_probability(P[distribution(M.states[i1])], sequence[k1]),
                 M.state_weights[i1])]]

\* the emission table e[k, i]; with_weights adds state_weights (viterbi)
EmissionTable(M, P, sequence, with_weights) ==
    [k1 \in 1..Len(sequence) |->
        [i1 \in 1..M.silent_start |->
            LET lp == log_probability(P[distribution(M.states[i1])], sequence[k1])
            IN IF with_weights THEN LAdd(lp, M.state_weights[i1]) ELSE lp]]

\* cvarray(shape=...) raises ValueError when a dimension is not positive
BadShape(M, sequence) == Len(sequence) = 0 \/ M.silent_start = 0

\* pair_lse over the in-edges k of state l, from in-edge k on, of
\* row[ki] + in_transition_log_probabilities[k]; mode selects the sources:
\* "all", "normal" (ki < silent_start) or "silent" (silent_start <= ki < l)
RECURSIVE LseIn(_, _, _, _, _, _)
LseIn(M, row, l, k, mode, acc) ==
    IF k >= At(M.in_edge_count, l + 1) THEN acc
    ELSE LET ki == At(M.in_transitions, k)
             skip == \/ (mode = "normal" /\ ki >= M.silent_start)
                     \/ (mode = "silent" /\ (ki < M.silent_start \/ ki >= l))
         IN IF skip THEN LseIn(M, row, l, k + 1, mode, acc)
            ELSE LseIn(M, row, l, k + 1, mode,
                       pair_lse(acc, LAdd(At(row, ki),
                                          At(M.in_transition_log_probabilities, k))))

InLse(M, row, l, mode) == LseIn(M, row, l, At(M.in_edge_count, l), mode, NEGINF)

\* the loop over the silent states l = from..m-1 that handles the transitions
\* between silent states; in row 0 the start state is skipped and the entry is
\* overwritten, in the later rows it is combined with the first pass
ForwardSilentSkipped(M, row, l, first_row) == row

RECURSIVE ForwardSilent(_, _, _, _)
ForwardSilent(M, row, l, first_row) ==
    IF l >= Len(M.states) THEN row
    ELSE IF first_row /\ l = M.start_index THEN ForwardSilent(M, row, l + 1, first_row)
    ELSE LET lp == InLse(M, row, l, "silent")
             v == IF first_row THEN lp ELSE pair_lse(At(row, l), lp)
         IN ForwardSilent(M, Put(row, l, v), l + 1, first_row)

RECURSIVE RowSum(_, _)
RowSum(row, l) ==
    IF l > Len(row) THEN <<0, 1>> ELSE PAdd(cexp(row[l]), RowSum(row, l + 1))

\* the row normalization: the log normalizing weight c of the row, and the row
\* with c subtracted from every entry
Rescale(row) ==
    LET c == clog(RowSum(row, 1))
    IN [row |-> [l1 \in 1..Len(row) |-> LSub(row[l1], c)], c |-> c]

\* one step i -> i+1 of the forward recurrence, with the row normalization;
\* returns the new row and its log normalizing weight c[i+1]
ForwardStep(M, e, prev, i) ==
    LET m == Len(M.states)
        r1 == [l1 \in 1..m |->
                 IF l1 <= M.silent_start
                 THEN LAdd(InLse(M, prev, l1 - 1, "all"), e[i + 1][l1])
                 ELSE NEGINF]
        r2 == [l1 \in 1..m |->
                 IF l1 <= M.silent_start THEN r1[l1]
                 ELSE InLse(M, r1, l1 - 1, "normal")]
    IN Rescale(ForwardSilent(M, r2, M.silent_start, FALSE))

RECURSIVE ForwardRows(_, _, _, _, _)
ForwardRows(M, e, rows, cs, i) ==
    IF i >= Len(e) THEN [rows |-> rows, c |-> cs]
    ELSE LET st == ForwardStep(M, e, rows[Len(rows)], i)
         IN ForwardRows(M, e, Append(rows, st.row), Append(cs, st.c), i + 1)

\* x plus c[from] ... c[to], added one at a time
RECURSIVE AddScales(_, _, _, _)
AddScales(x, cs, from, to) ==
    IF from > to THEN x ELSE AddScales(LAdd(x, At(cs, from)), cs, from + 1, to)

\* Model._forward: the table f[0..n][0..m-1]
_forward(M, P, sequence) ==
    LET m == Len(M.states)
        n == Len(sequence)
        e == EmissionTable(M, P, sequence, FALSE)
        init == [l1 \in 1..m |-> IF l1 - 1 = M.start_index THEN ZeroLog ELSE NEGINF]
        row0 == ForwardSilent(M, init, M.silent_start, TRUE)
        r == ForwardRows(M, e, <<row0>>, <<ZeroLog>>, 0)
    IN [i1 \in 1..(n + 1) |->
          [l1 \in 1..m |-> AddScales(r.rows[i1][l1], r.c, 0, i1 - 1)]]

\* pair_lse over the out-edges l of state k, from out-edge l on, starting
\* from acc.  mode selects the targets and the term:
\*   "later":  li >= k+1            cur[li] + w
\*   "silent": li >= silent_start   cur[li] + w
\*   "normal": li < silent_start    nxt[li] + w + erow[li]
RECURSIVE LseOut(_, _, _, _, _, _, _, _)
LseOut(M, cur, nxt, erow, k, l, mode, acc) ==
    IF l >= At(M.out_edge_count, k + 1) THEN acc
    ELSE LET li == At(M.out_transitions, l)
             w == At(M.out_transition_log_probabilities, l)
             skip == \/ (mode = "later" /\ li < k + 1)
                     \/ (mode = "silent" /\ li < M.silent_start)
                     \/ (mode = "normal" /\ li >= M.silent_start)
             term == IF mode = "normal"
                     THEN LAdd(LAdd(At(nxt, li), w), At(erow, li))
                     ELSE LAdd(At(cur, li), w)
         IN IF skip THEN LseOut(M, cur, nxt, erow, k, l + 1, mode, acc)
            ELSE LseOut(M, cur, nxt, erow, k, l + 1, mode, pair_lse(acc, term))

OutLse(M, cur, nxt, erow, k, mode, acc) ==
    LseOut(M, cur, nxt, erow, k, At(M.out_edge_count, k), mode, acc)

\* the loop k = m-1 down to silent_start over the silent states' dependencies
\* on each other; in the base case the end state is skipped and the entry is
\* overwritten, in the recurrence it is combined with the entry
RECURSIVE BackwardSilent(_, _, _, _)
BackwardSilent(M, row, k, base) ==
    IF k < M.silent_start THEN row
    ELSE IF base /\ k = M.end_index THEN BackwardSilent(M, row, k - 1, base)
    ELSE LET lp == OutLse(M, row, row, <<>>, k, "later", NEGINF)
             v == IF base THEN lp ELSE pair_lse(lp, At(row, k))
         IN BackwardSilent(M, Put(row, k, v), k - 1, base)

\* row n of the backward table
BackwardBase(M, e) ==
    LET m == Len(M.states)
        n == Len(e)
    IN IF M.finite = 1
       THEN LET init == [l1 \in 1..m |->
                            IF l1 - 1 = M.end_index THEN ZeroLog ELSE NEGINF]
                r1 == BackwardSilent(M, init, m - 1, TRUE)
            IN [k1 \in 1..m |->
                  IF k1 <= M.silent_start
                  THEN OutLse(M, r1, r1, <<>>, k1 - 1, "silent", NEGINF)
                  ELSE r1[k1]]
       ELSE [k1 \in 1..m |-> IF k1 <= M.silent_start THEN e[n][k1] ELSE NEGINF]

\* the emitting states of row i, given the row's silent states in cur
BackwardEmitting(M, cur, nxt, erow) ==
    [k1 \in 1..Len(cur) |->
        IF k1 <= M.silent_start
        THEN OutLse(M, cur, nxt, erow, k1 - 1, "silent",
                    OutLse(M, cur, nxt, erow, k1 - 1, "normal", NEGINF))
        ELSE cur[k1]]

\* one step i+1 -> i of the backward recurrence, with the row normalization
BackwardStep(M, e, nxt, i) ==
    LET m == Len(M.states)
        erow == e[i + 1]
        r1 == [k1 \in 1..m |->
                 IF k1 > M.silent_start
                 THEN OutLse(M, nxt, nxt, erow, k1 - 1, "normal", NEGINF)
                 ELSE NEGINF]
    IN Rescale(BackwardEmitting(M, BackwardSilent(M, r1, m - 1, FALSE), nxt, erow))

\* rows i, i+1, ..., n of the table, built from row n down; cs holds c[i..n]
RECURSIVE BackwardRows(_, _, _, _, _)
BackwardRows(M, e, rows, cs, i) ==
    IF i < 0 THEN [rows |-> rows, c |-> cs]
    ELSE LET st == BackwardStep(M, e, rows[1], i)
         IN BackwardRows(M, e, <<st.row>> \o rows, <<st.c>> \o cs, i - 1)

\* Model._backward: the table b[0..n][0..m-1]
_backward(M, P, sequence) ==
    LET m == Len(M.states)
        n == Len(sequence)
        e == EmissionTable(M, P, sequence, FALSE)
        r == BackwardRows(M, e, <<BackwardBase(M, e)>>, <<ZeroLog>>, n - 1)
    IN [i1 \in 1..(n + 1) |->
          [l1 \in 1..m |-> AddScales(r.rows[i1][l1], r.c, i1 - 1, n)]]

\* pair_lse of row[from..to-1], starting from acc
RECURSIVE LseRow(_, _, _, _)
LseRow(row, from, to, acc) ==
    IF from >= to THEN acc ELSE LseRow(row, from + 1, to, pair_lse(acc, At(row, from)))

\* the sequence log probability read from a forward table, as
\* Model._log_probability reads it
SequenceLogProbability(M, f, n) ==
    IF M.finite = 1 THEN At(At(f, n), M.end_index)
    ELSE LseRow(At(f, n), 0, M.silent_start, NEGINF)

\* Model._log_probability
_log_probability(M, P, sequence) ==
    SequenceLogProbability(M, _forward(M, P, sequence), Len(sequence))

\* A cell of the Viterbi tables: v[i, l], tracebackx[i, l], tracebacky[i, l].
\* The traceback arrays are not initialized: -1 marks an entry never written.
CellFirstRow(v, tx, ty) == [v |-> v, tx |-> 0, ty |-> ty]

Cell(v, tx, ty) == [v |-> v, tx |-> tx, ty |-> ty]

\* the scan of the in-edges k of state l for a better predecessor: src is the
\* row the predecessors are read from, x its row number, add the emission term
RECURSIVE BestIn(_, _, _, _, _, _, _, _)
BestIn(M, src, l, k, mode, x, add, cell) ==
    IF k >= At(M.in_edge_count, l + 1) THEN cell
    ELSE LET ki == At(M.in_transitions, k)
             skip == \/ (mode = "normal" /\ ki >= M.silent_start)
                     \/ (mode = "silent" /\ (ki < M.silent_start \/ ki >= l))
             state_log_probability ==
                 LAdd(LAdd(At(src, ki).v, At(M.in_transition_log_probabilities, k)), add)
         IN IF skip THEN BestIn(M, src, l, k + 1, mode, x, add, cell)
            ELSE IF Gt(state_log_probability, cell.v)
            THEN BestIn(M, src, l, k + 1, mode, x, add, Cell(state_log_probability, x, ki))
            ELSE BestIn(M, src, l, k + 1, mode, x, add, cell)

\* the pass over the silent states l = from..m-1 looking at the silent
\* predecessors of the same row x; row 0 skips the start state
ViterbiSilentSkipped(M, row, l, x) == row

RECURSIVE ViterbiSilent(_, _, _, _)
ViterbiSilent(M, row, l, x) ==
    IF l >= Len(M.states) THEN row
    ELSE IF x = 0 /\ l = M.start_index THEN ViterbiSilent(M, row, l + 1, x)
    ELSE ViterbiSilent(M,
            Put(row, l, BestIn(M, row, l, At(M.in_edge_count, l), "silent", x,
                               ZeroLog, At(row, l))),
            l + 1, x)

\* one step i -> i+1 of the Viterbi fill
ViterbiStep(M, e, prev, i) ==
    LET m == Len(M.states)
        fresh == Cell(NEGINF, -1, -1)
        r1 == [l1 \in 1..m |->
                 IF l1 <= M.silent_start
                 THEN BestIn(M, prev, l1 - 1, At(M.in_edge_count, l1 - 1), "all", i,
                             e[i + 1][l1], fresh)
                 ELSE fresh]
        r2 == [l1 \in 1..m |->
                 IF l1 <= M.silent_start THEN r1[l1]
                 ELSE BestIn(M, r1, l1 - 1, At(M.in_edge_count, l1 - 1), "normal",
                             i + 1, ZeroLog, fresh)]
    IN ViterbiSilent(M, r2, M.silent_start, i + 1)

RECURSIVE ViterbiRows(_, _, _, _)
ViterbiRows(M, e, rows, i) ==
    IF i >= Len(e) THEN rows
    ELSE ViterbiRows(M, e, Append(rows, ViterbiStep(M, e, rows[Len(rows)], i)), i + 1)

\* the filled Viterbi tables
ViterbiFill(M, P, sequence) ==
    LET m == Len(M.states)
        e == EmissionTable(M, P, sequence, TRUE)
        init == [l1 \in 1..m |->
                    Cell(IF l1 - 1 = M.start_index THEN ZeroLog ELSE NEGINF, -1, -1)]
    IN ViterbiRows(M, e, <<ViterbiSilent(M, init, M.silent_start, 0)>>, 0)

\* numpy.argmax(v[n]): the first index of the largest entry
ArgMax(row) ==
    CHOOSE i \in 0..(Len(row) - 1) :
        /\ \A j \in 0..(Len(row) - 1) : ~Gt(At(row, j).v, At(row, i).v)
        /\ \A j \in 0..(i - 1) : Gt(At(row, i).v, At(row, j).v)

\* the traceback loop with the test `while px != 0`
RECURSIVE TracebackRowOnly(_, _, _, _, _, _)
TracebackRowOnly(M, t, px, py, path, fuel) ==
    IF px = 0
    THEN [kind |-> "path", path |-> <<<<px, py>>>> \o path]
    ELSE IF fuel = 0 \/ px < 0 \/ py < 0 THEN [kind |-> "wild", path |-> path]
    ELSE LET cell == At(At(t, px), py)
         IN TracebackRowOnly(M, t, cell.tx, cell.ty, <<<<px, py>>>> \o path, fuel - 1)

\* the traceback loop from (px, py); path is built in reverse.  Reading an
\* entry that was never written, or running past fuel steps, ends in "wild".
RECURSIVE Traceback(_, _, _, _, _, _)
Traceback(M, t, px, py, path, fuel) ==
    IF ~(px # 0 \/ py # M.start_index)
    THEN [kind |-> "path", path |-> <<<<px, py>>>> \o path]
    ELSE IF fuel = 0 \/ px < 0 \/ py < 0 THEN [kind |-> "wild", path |-> path]
    ELSE LET cell == At(At(t, px), py)
         IN Traceback(M, t, cell.tx, cell.ty, <<<<px, py>>>> \o path, fuel - 1)

\* Model._viterbi: (log_likelihood, path); the path holds (index, state index)
_viterbi(M, P, sequence) ==
    LET n == Len(sequence)
        t == ViterbiFill(M, P, sequence)
        end_index == IF M.finite = 1 THEN M.end_index ELSE ArgMax(At(t, n))
        log_likelihood == At(At(t, n), end_index).v
    IN IF log_likelihood = NEGINF
       THEN [log_likelihood |-> log_likelihood, kind |-> "None", path |-> <<>>]
       ELSE LET r == Traceback(M, t, n, end_index, <<>>, (n + 1) * Len(M.states) + 1)
            IN [log_likelihood |-> log_likelihood, kind |-> r.kind, path |-> r.path]

\* pair_lse over the rows i = from..to-1 of
\* f[i, k] + w + e[i, li] + b[i+1, li] (li emitting) or f[i, k] + w + b[i, li]
RECURSIVE TransitionSum(_, _, _, _, _, _, _, _, _, _)
TransitionSum(f, b, e, k, li, w, emitting, i, to, acc) ==
    IF i >= to THEN acc
    ELSE LET term == IF emitting
                     THEN LAdd(LAdd(LAdd(At(At(f, i), k), w), At(At(e, i), li)),
                               At(At(b, i + 1), li))
                     ELSE LAdd(LAdd(At(At(f, i), k), w), At(At(b, i), li))
         IN TransitionSum(f, b, e, k, li, w, emitting, i + 1, to, pair_lse(acc, term))

\* expected_transitions: the m-by-m matrix, one contribution per out-edge
ExpectedTransitions(M, f, b, e, lsp) ==
    LET m == Len(M.states)
        n == Len(e)
        Edge(k, li) == {l \in At(M.out_edge_count, k)..(At(M.out_edge_count, k + 1) - 1) :
                            At(M.out_transitions, l) = li}
    IN [k1 \in 1..m |-> [l1 \in 1..m |->
          IF Edge(k1 - 1, l1 - 1) = {} THEN <<0, 1>>
          ELSE LET l == CHOOSE x \in Edge(k1 - 1, l1 - 1) : TRUE
                   w == At(M.out_transition_log_probabilities, l)
                   emitting == l1 - 1 < M.silent_start
                   total == TransitionSum(f, b, e, k1 - 1, l1 - 1, w, emitting, 0,
                                          IF emitting THEN n ELSE n + 1, NEGINF)
               IN PAdd(<<0, 1>>, cexp(LSub(total, lsp)))]]

\* the states tied to k, in the order of its row of self.tied
TiedRow(M, k) ==
    [j \in 1..(At(M.tied_state_count, k + 1) - At(M.tied_state_count, k)) |->
        At(M.tied, At(M.tied_state_count, k) + j - 1)]

RECURSIVE LseList(_, _, _, _)
LseList(row, idx, j, acc) ==
    IF j > Len(idx) THEN acc
    ELSE LseList(row, idx, j + 1, pair_lse(acc, At(row, idx[j])))

\* the tie aggregation of emission_weights: the loop over k with visited
TieAggregateSkipped(M, W, k, visited) == W

RECURSIVE TieAggregate(_, _, _, _)
TieAggregate(M, W, k, visited) ==
    IF k >= M.silent_start THEN W
    ELSE IF k \in visited THEN TieAggregate(M, W, k + 1, visited)
    ELSE LET row == TiedRow(M, k)
             W2 == [i1 \in 1..Len(W) |->
                      LET p == LseList(W[i1], row, 1, At(W[i1], k))
                      IN [c1 \in 1..Len(W[i1]) |->
                            IF c1 - 1 = k \/ c1 - 1 \in Range(row) THEN p ELSE W[i1][c1]]]
         IN TieAggregate(M, W2, k + 1, visited \cup {k} \cup Range(row))

\* pair_lse of f[i, end_index] over the rows i = from..silent_start-1
RECURSIVE LseColumn(_, _, _, _)
LseColumn(M, f, i, acc) ==
    IF i >= M.silent_start THEN acc
    ELSE LseColumn(M, f, i + 1, pair_lse(acc, At(At(f, i), M.end_index)))

FBSequenceLogProbabilityOfStart(M, f, n) == At(At(f, 0), M.start_index)

\* the sequence log probability as _forward_backward computes it; "IndexError"
\* when the infinite branch reads a row f[i] past the table
FBSequenceLogProbability(M, f, n) ==
    IF M.finite = 1 THEN At(At(f, n), M.end_index)
    ELSE LseColumn(M, f, 0, NEGINF)

\* emission_weights[i, k] = f[i+1, k] + b[i+1, k] - log_sequence_probability
EmissionWeights(M, f, b, n, lsp) ==
    [i1 \in 1..n |-> [k1 \in 1..M.silent_start |->
        LSub(LAdd(At(At(f, i1), k1 - 1), At(At(b, i1), k1 - 1)), lsp)]]

\* what _forward_backward returns when the sequence log probability is lsp
PosteriorTables(M, f, b, e, tie, lsp) ==
    IF lsp = NEGINF THEN [kind |-> "None"]
    ELSE [kind |-> "tables",
          expected_transitions |-> ExpectedTransitions(M, f, b, e, lsp),
          emission_weights |->
              IF tie = 1 THEN TieAggregate(M, EmissionWeights(M, f, b, Len(e), lsp), 0, {})
              ELSE EmissionWeights(M, f, b, Len(e), lsp)]

\* _forward_backward from the tables f, b and e on
Posteriors(M, f, b, e, tie) ==
    PosteriorTables(M, f, b, e, tie, FBSequenceLogProbability(M, f, Len(e)))

\* Model._forward_backward(sequence, tie)
_forward_backward(M, P, sequence, tie) ==
    IF M.finite = 0 /\ M.silent_start > Len(sequence) + 1
    THEN [kind |-> "IndexError"]
    ELSE Posteriors(M, _forward(M, P, sequence), _backward(M, P, sequence),
                    EmissionTable(M, P, sequence, FALSE), tie)

\* the scan of a row of emission_weights for its largest entry, from column l
\* on: the first column whose entry is greater than every earlier one, or
\* maximum_index = -1 when no entry is greater than NEGINF
RECURSIVE MaximumIndex(_, _, _, _)
MaximumIndex(row, l, maximum_emission_weight, maximum_index) ==
    IF l >= Len(row) THEN maximum_index
    ELSE IF Gt(At(row, l), maximum_emission_weight)
    THEN MaximumIndex(row, l + 1, At(row, l), l)
    ELSE MaximumIndex(row, l + 1, maximum_emission_weight, maximum_index)

\* the path of state indices that _maximum_a_posteriori builds from the
\* tie-aggregated emission weights W
MAPPath(M, W) ==
    <<M.start_index>> \o [k1 \in 1..Len(W) |-> MaximumIndex(W[k1], 0, NEGINF, -1)]
        \o <<M.end_index>>

\* what _maximum_a_posteriori returns when the sequence log probability is lsp
MAPResult(M, f, b, n, lsp) ==
    IF lsp = NEGINF THEN [kind |-> "None"]
    ELSE [kind |-> "path",
          path |-> MAPPath(M, TieAggregate(M, EmissionWeights(M, f, b, n, lsp), 0, {}))]

\* _maximum_a_posteriori from the tables f and b on
MAPFromTables(M, f, b, n) == MAPResult(M, f, b, n, FBSequenceLogProbability(M, f, n))

\* Model._maximum_a_posteriori(sequence)
_maximum_a_posteriori(M, P, sequence) ==
    IF M.finite = 0 /\ M.silent_start > Len(sequence) + 1
    THEN [kind |-> "IndexError"]
    ELSE MAPFromTables(M, _forward(M, P, sequence), _backward(M, P, sequence),
                       Len(sequence))

(***************************************************************************)
(* Training.  Linear values (probabilities, counts, weights) are the same  *)
(* fractions as the log values: cexp and clog move between the two.        *)
(***************************************************************************)
\* x * y on linear values
PMul(x, y) == LAdd(x, y)

\* x / y on linear values
PDiv(x, y) == LSub(x, y)

\* x - y on finite linear values
PSub(x, y) == Q(x[1] * y[2] - y[1] * x[2], x[2] * y[2])

\* numpy.sum(weights)
RECURSIVE SumSeq(_, _, _)
SumSeq(weights, i, acc) ==
    IF i > Len(weights) THEN acc ELSE SumSeq(weights, i + 1, PAdd(acc, weights[i]))

\* characters[character]: the sum of the weights of the items equal to it
RECURSIVE WeightOf(_, _, _, _, _)
WeightOf(items, weights, character, i, acc) ==
    IF i > Len(items) THEN acc
    ELSE WeightOf(items, weights, character, i + 1,
                  IF items[i] = character THEN PAdd(acc, weights[i]) ELSE acc)

\* the dictionary DiscreteDistribution.from_sample builds from the
\* normalized weights
Characters(items, weights, total) ==
    [character \in Range(items) |->
        WeightOf(items, [i \in 1..Len(items) |-> PDiv(weights[i], total)],
                 character, 1, <<0, 1>>)]

\* DiscreteDistribution.from_sample(items, weights): the new parameters
from_sample(items, weights) ==
    Characters(items, weights, SumSeq(weights, 1, <<0, 1>>))

\* from_sample(items) without weights: every item weighs 1 / n
Ones(items) == [i \in 1..Len(items) |-> <<1, 1>>]

\* the state index k an entry l of an edge table belongs to
OwnerOf(edge_count, l) ==
    CHOOSE k \in 0..(Len(edge_count) - 2) :
        At(edge_count, k) <= l /\ l < At(edge_count, k + 1)

\* one term of norm[k] and the numerator of probability
EdgeMass(expected, pseudocount, transition_pseudocount, use_pseudocount) ==
    PAdd(PAdd(expected, transition_pseudocount),
         PMul(pseudocount, <<use_pseudocount, 1>>))

\* norm[k]: the sum of the terms of the out-edges l..to-1 of state k
RECURSIVE NormSum(_, _, _, _, _, _, _, _)
NormSum(M, expected, k, l, to, transition_pseudocount, use_pseudocount, acc) ==
    IF l >= to THEN acc
    ELSE NormSum(M, expected, k, l + 1, to, transition_pseudocount, use_pseudocount,
                 PAdd(acc, EdgeMass(At(At(expected, k), At(M.out_transitions, l)),
                                    At(M.out_transition_pseudocounts, l),
                                    transition_pseudocount, use_pseudocount)))

Norm(M, expected, transition_pseudocount, use_pseudocount) ==
    [k1 \in 1..Len(M.states) |->
        NormSum(M, expected, k1 - 1, At(M.out_edge_count, k1 - 1),
                At(M.out_edge_count, k1), transition_pseudocount, use_pseudocount,
                <<0, 1>>)]

\* the same with half of the old probability kept whatever edge_inertia is
BlendKeepsHalf(old, mass, norm, edge_inertia) ==
    clog(PAdd(PMul(cexp(old), <<1, 2>>), PMul(PDiv(mass, norm), <<1, 2>>)))

\* the same without the division by norm
BlendUnnormalized(old, mass, norm, edge_inertia) ==
    clog(PAdd(PMul(cexp(old), edge_inertia),
              PMul(mass, PSub(<<1, 1>>, edge_inertia))))

\* clog(cexp(old) * edge_inertia + probability * (1 - edge_inertia))
Blend(old, mass, norm, edge_inertia) ==
    clog(PAdd(PMul(cexp(old), edge_inertia),
              PMul(PDiv(mass, norm), PSub(<<1, 1>>, edge_inertia))))

\* the test that is true of every norm
ObservedAlways(norm_k) == TRUE

\* "if norm[k] > 0": the edges of a state are rewritten when its norm is positive
Observed(norm_k) == Gt(norm_k, <<0, 1>>)

\* the update of the out-edge table alone
UpdateEdgesOutOnly(M, expected, norm, transition_pseudocount, use_pseudocount, edge_inertia) ==
    [M EXCEPT
        !.out_transition_log_probabilities =
            [l1 \in 1..Len(M.out_transitions) |->
                IF Observed(At(norm, OwnerOf(M.out_edge_count, l1 - 1)))
                THEN Blend(M.out_transition_log_probabilities[l1],
                           EdgeMass(At(At(expected, OwnerOf(M.out_edge_count, l1 - 1)),
                                       M.out_transitions[l1]),
                                    M.out_transition_pseudocounts[l1],
                                    transition_pseudocount, use_pseudocount),
                           At(norm, OwnerOf(M.out_edge_count, l1 - 1)), edge_inertia)
                ELSE M.out_transition_log_probabilities[l1]]]

\* the update of both edge tables from the expected transitions (or the
\* transition counts) and norm
UpdateEdges(M, expected, norm, transition_pseudocount, use_pseudocount, edge_inertia) ==
    [M EXCEPT
        !.out_transition_log_probabilities =
            [l1 \in 1..Len(M.out_transitions) |->
                IF Observed(At(norm, OwnerOf(M.out_edge_count, l1 - 1)))
                THEN Blend(M.out_transition_log_probabilities[l1],
                           EdgeMass(At(At(expected, OwnerOf(M.out_edge_count, l1 - 1)),
                                       M.out_transitions[l1]),
                                    M.out_transition_pseudocounts[l1],
                                    transition_pseudocount, use_pseudocount),
                           At(norm, OwnerOf(M.out_edge_count, l1 - 1)), edge_inertia)
                ELSE M.out_transition_log_probabilities[l1]],
        !.in_transition_log_probabilities =
            [l1 \in 1..Len(M.in_transitions) |->
                IF Observed(At(norm, M.in_transitions[l1]))
                THEN Blend(M.in_transition_log_probabilities[l1],
                           EdgeMass(At(At(expected, M.in_transitions[l1]),
                                       OwnerOf(M.in_edge_count, l1 - 1)),
                                    M.in_transition_pseudocounts[l1],
                                    transition_pseudocount, use_pseudocount),
                           At(norm, M.in_transitions[l1]), edge_inertia)
                ELSE M.in_transition_log_probabilities[l1]]]

\* the normalization and update of the transitions that ends a training pass
Reestimate(M, expected, transition_pseudocount, use_pseudocount, edge_inertia) ==
    UpdateEdges(M, expected, Norm(M, expected, transition_pseudocount, use_pseudocount),
                transition_pseudocount, use_pseudocount, edge_inertia)

\* element-wise sum of two m-by-m matrices
MatrixAdd(A, B) == [k1 \in 1..Len(A) |-> [l1 \in 1..Len(A[k1]) |-> PAdd(A[k1][l1], B[k1][l1])]]

\* x + row[idx[j]] + ... : the running sum over the tied states
RECURSIVE SumList(_, _, _, _)
SumList(row, idx, j, acc) ==
    IF j > Len(idx) THEN acc
    ELSE SumList(row, idx, j + 1, PAdd(acc, At(row, idx[j])))

\* what the loop over the sequences of a Baum-Welch pass has collected:
\* expected_transitions, and emitted_symbols and emission_weights up to
\* characters_so_far (emission_weights is kept one row per character)
NothingCollected(M) ==
    [expected_transitions |->
        [k1 \in 1..Len(M.states) |-> [l1 \in 1..Len(M.states) |-> <<0, 1>>]],
     emitted_symbols |-> <<>>,
     emission_weights |-> <<>>]

\* the body of the loop for a sequence that is not skipped
AddSequence(M, acc, sequence, e, f, b, log_sequence_probability) ==
    [expected_transitions |->
        MatrixAdd(acc.expected_transitions,
                  ExpectedTransitions(M, f, b, e, log_sequence_probability)),
     emitted_symbols |-> acc.emitted_symbols \o sequence,
     emission_weights |->
        acc.emission_weights
            \o EmissionWeights(M, f, b, Len(sequence), log_sequence_probability)]

\* the test that skips an impossible sequence
SkipTest(M, P, acc, sequence, e, f, log_sequence_probability) ==
    IF log_sequence_probability = NEGINF THEN acc
    ELSE AddSequence(M, acc, sequence, e, f, _backward(M, P, sequence),
                     log_sequence_probability)

OneSequence(M, P, acc, sequence, f) ==
    SkipTest(M, P, acc, sequence, EmissionTable(M, P, sequence, FALSE), f,
             SequenceLogProbability(M, f, Len(sequence)))

\* the loop over the sequences
RECURSIVE CollectSequences(_, _, _, _, _)
CollectSequences(M, P, sequences, j, acc) ==
    IF j > Len(sequences) THEN acc
    ELSE CollectSequences(M, P, sequences, j + 1,
             OneSequence(M, P, acc, sequences[j], _forward(M, P, sequences[j])))

\* total_characters
RECURSIVE TotalCharacters(_, _)
TotalCharacters(sequences, j) ==
    IF j > Len(sequences) THEN 0
    ELSE Len(sequences[j]) + TotalCharacters(sequences, j + 1)

\* the entries of emitted_symbols and emission_weights that no sequence
\* wrote keep the zeros numpy.zeros put there
PadCollected(M, acc, total_characters) ==
    [acc EXCEPT
        !.emitted_symbols =
            @ \o [i \in 1..(total_characters - Len(@)) |-> 0],
        !.emission_weights =
            @ \o [i \in 1..(total_characters - Len(@)) |->
                    [k1 \in 1..M.silent_start |-> <<0, 1>>]]]

\* the symbols and weights collected for state k from character i on
RECURSIVE Collected(_, _, _, _, _, _)
Collected(M, acc, k, i, emitted_probability_threshold, out) ==
    IF i > Len(acc.emitted_symbols) THEN out
    ELSE Collected(M, acc, k, i + 1, emitted_probability_threshold,
            IF Gt(SumList(acc.emission_weights[i], TiedRow(M, k), 1,
                          At(acc.emission_weights[i], k)),
                  emitted_probability_threshold)
            THEN [symbols |-> Append(out.symbols, acc.emitted_symbols[i]),
                  weights |-> Append(out.weights,
                                SumList(acc.emission_weights[i], TiedRow(M, k), 1,
                                        At(acc.emission_weights[i], k)))]
            ELSE out)

\* distribution.from_sample(symbols, weights=weights) on the distribution d
Refit(P, d, sample) == [P EXCEPT ![d] = from_sample(sample.symbols, sample.weights)]

\* the from_sample calls one after the other: P after call c and the later ones
RECURSIVE ApplyCalls(_, _, _, _)
ApplyCalls(M, P, calls, c) ==
    IF c > Len(calls) THEN P
    ELSE ApplyCalls(M, Refit(P, distribution(At(M.states, calls[c].state)),
                             calls[c].sample),
                    calls, c + 1)

\* the same loop with no state marked as visited through its tie row
RECURSIVE WeightedCallsPerState(_, _, _, _, _)
WeightedCallsPerState(M, acc, k, visited, emitted_probability_threshold) ==
    IF k >= M.silent_start THEN <<>>
    ELSE <<[state |-> k,
            sample |-> Collected(M, acc, k, 1, emitted_probability_threshold,
                                 [symbols |-> <<>>, weights |-> <<>>])]>>
         \o WeightedCallsPerState(M, acc, k + 1, visited, emitted_probability_threshold)

\* the loop over the emitting states that retrains each distribution: the
\* from_sample calls it makes, in order.  visited[li] = 1 is set inside the
\* loop over the characters
RECURSIVE WeightedCalls(_, _, _, _, _)
WeightedCalls(M, acc, k, visited, emitted_probability_threshold) ==
    IF k >= M.silent_start THEN <<>>
    ELSE IF k \in visited
    THEN WeightedCalls(M, acc, k + 1, visited, emitted_probability_threshold)
    ELSE <<[state |-> k,
            sample |-> Collected(M, acc, k, 1, emitted_probability_threshold,
                                 [symbols |-> <<>>, weights |-> <<>>])]>>
         \o WeightedCalls(M, acc, k + 1,
                visited \cup {k}
                    \cup (IF Len(acc.emitted_symbols) = 0 THEN {}
                          ELSE Range(TiedRow(M, k))),
                emitted_probability_threshold)

\* the parameters after the from_sample calls of a Baum-Welch pass
RefitWeighted(M, P, acc, k, visited, emitted_probability_threshold) ==
    ApplyCalls(M, P, WeightedCalls(M, acc, k, visited, emitted_probability_threshold), 1)

\* the two halves of a pass, from what the sequences loop collected
FinishBaumWelch(M, P, acc, a) ==
    [model |-> Reestimate(M, acc.expected_transitions, a.transition_pseudocount,
                          a.use_pseudocount, a.edge_inertia),
     parameters |-> RefitWeighted(M, P, acc, 0, {}, a.emitted_probability_threshold)]

\* Model._train_once_baum_welch: the model and the parameters after the pass
_train_once_baum_welch(M, P, sequences, a) ==
    FinishBaumWelch(M, P,
        PadCollected(M, CollectSequences(M, P, sequences, 1, NothingCollected(M)),
                     TotalCharacters(sequences, 1)),
        a)

\* transition_counts[a, b] += 1
Bump(counts, a, b) == [counts EXCEPT ![a + 1][b + 1] = @ + 1]

\* the loop over the consecutive labels from position i on
RECURSIVE CountSteps(_, _, _, _)
CountSteps(M, counts, labels, i) ==
    IF i >= Len(labels) THEN counts
    ELSE CountSteps(M, Bump(counts, IndexOf(M.states, labels[i]),
                            IndexOf(M.states, labels[i + 1])),
                    labels, i + 1)

\* the transitions one labelled sequence adds to transition_counts
CountPath(M, counts, labels) ==
    Bump(CountSteps(M, Bump(counts, M.start_index, IndexOf(M.states, labels[1])),
                    labels, 1),
         IndexOf(M.states, labels[Len(labels)]), M.end_index)

\* symbols[k].append(x) for state k and for every state tied to it
AppendTied(M, symbols, k, x) ==
    [k1 \in 1..Len(symbols) |->
        IF k1 - 1 = k \/ k1 - 1 \in Range(TiedRow(M, k))
        THEN Append(symbols[k1], x) ELSE symbols[k1]]

\* the loop over the labels from position j on; i is the next observation
RECURSIVE CollectLabels(_, _, _, _, _, _)
CollectLabels(M, symbols, sequence, labels, j, i) ==
    IF j > Len(labels) THEN symbols
    ELSE IF is_silent(labels[j])
    THEN CollectLabels(M, symbols, sequence, labels, j + 1, i)
    ELSE CollectLabels(M, AppendTied(M, symbols, IndexOf(M.states, labels[j]),
                                     At(sequence, i)),
                       sequence, labels, j + 1, i + 1)

\* the loop over the (sequence, labels) pairs
RECURSIVE CollectPairs(_, _, _, _)
CollectPairs(M, pairs, j, acc) ==
    IF j > Len(pairs) THEN acc
    ELSE CollectPairs(M, pairs, j + 1,
            [transition_counts |->
                CountPath(M, acc.transition_counts, pairs[j].labels),
             symbols |->
                CollectLabels(M, acc.symbols, pairs[j].sequence, pairs[j].labels, 1, 0)])

\* the loop over the emitting states that retrains each distribution on the
\* symbols of its state: the from_sample calls it makes, in order
RECURSIVE LabelledCalls(_, _, _, _)
LabelledCalls(M, symbols, k, visited) ==
    IF k >= M.silent_start THEN <<>>
    ELSE IF k \in visited THEN LabelledCalls(M, symbols, k + 1, visited)
    ELSE <<[state |-> k,
            sample |-> [symbols |-> At(symbols, k), weights |-> Ones(At(symbols, k))]]>>
         \o LabelledCalls(M, symbols, k + 1, visited \cup {k} \cup Range(TiedRow(M, k)))

\* the parameters after the from_sample calls of a labelled pass
RefitLabelled(M, P, symbols, k, visited) ==
    ApplyCalls(M, P, LabelledCalls(M, symbols, k, visited), 1)

FinishLabelled(M, P, acc, a) ==
    [model |-> Reestimate(M,
                  [k1 \in 1..Len(M.states) |-> [l1 \in 1..Len(M.states) |->
                      <<acc.transition_counts[k1][l1], 1>>]],
                  a.transition_pseudocount, a.use_pseudocount, a.edge_inertia),
     parameters |-> RefitLabelled(M, P, acc.symbols, 0, {})]

\* transition_counts and symbols before the loop over the pairs
NothingLabelled(M) ==
    [transition_counts |->
        [k1 \in 1..Len(M.states) |-> [l1 \in 1..Len(M.states) |-> 0]],
     symbols |-> [k1 \in 1..M.silent_start |-> <<>>]]

\* Model._train_labelled: the model and the parameters after the pass
_train_labelled(M, P, pairs, a) ==
    FinishLabelled(M, P, CollectPairs(M, pairs, 1, NothingLabelled(M)), a)

\* the pair _train_viterbi appends for a sequence with the path viterbi
\* returned, or nothing for a sequence viterbi scores NEGINF
ViterbiPair(M, sequence, v) ==
    IF v.log_likelihood = NEGINF THEN <<>>
    ELSE << [sequence |-> sequence,
             labels |-> [j \in 1..Len(v.path) |-> At(M.states, v.path[j][2])]] >>

RECURSIVE ViterbiPairs(_, _, _, _)
ViterbiPairs(M, P, sequences, j) ==
    IF j > Len(sequences) THEN <<>>
    ELSE ViterbiPair(M, sequences[j], _viterbi(M, P, sequences[j]))
            \o ViterbiPairs(M, P, sequences, j + 1)

\* Model._train_viterbi
_train_viterbi(M, P, sequences, a) ==
    _train_labelled(M, P, ViterbiPairs(M, P, sequences, 1), a)

\* Model.log_probability(sequences) of a list of sequences, without paths
RECURSIVE log_probability_sum(_, _, _, _, _)
log_probability_sum(M, P, sequences, j, acc) ==
    IF j > Len(sequences) THEN acc
    ELSE log_probability_sum(M, P, sequences, j + 1,
                             pair_lse(acc, _log_probability(M, P, sequences[j])))


(***************************************************************************)
(* State                                                                   *)
(***************************************************************************)
VARIABLES
    graph,       \* Model.graph, the builder graph
    pc,          \* "build", "baked", or "error" when bake raised
    merged,      \* the merge argument of the bake call
    model,       \* the fields bake sets: states, edge tables, tie table, ...
    parameters,  \* Distribution.parameters of every distribution object
    result,      \* the value returned by the last kernel call
    frame        \* the train or sample call in progress: arguments and locals

vars == <<graph, pc, merged, model, parameters, result, frame>>

NoResult == [op |-> "none"]

NoFrame == [op |-> "none"]

\* Model.__init__: start and end are in the graph
Init ==
    /\ graph = [nodes |-> {start, end}, edge |-> <<>>]
    /\ pc = "build"
    /\ merged = "-"
    /\ model = NoModel
    /\ parameters = InitParameters
    /\ result = NoResult
    /\ frame = NoFrame

\* Model.add_state(state)
AddState ==
    /\ pc = "build"
    /\ \E s \in StateChoices :
        /\ s \notin graph.nodes
        /\ graph' = [graph EXCEPT !.nodes = @ \cup {s}]
    /\ UNCHANGED <<pc, merged, model, parameters, result, frame>>

\* Model.add_transition(a, b, probability), the arguments drawn from choices
\* while the graph has fewer than max edges: pseudocount defaults to probability
add_transition(choices, max) ==
    /\ pc = "build"
    /\ Cardinality(DOMAIN graph.edge) < max
    /\ \E c \in choices :
        /\ <<c[1], c[2]>> \notin DOMAIN graph.edge
        /\ graph' = add_edge(graph, c[1], c[2], log(c[3]), c[3])
    /\ UNCHANGED <<pc, merged, model, parameters, result, frame>>

AddTransition == add_transition(EdgeChoices, MaxEdges)

\* Model.bake(merge=...), the merge argument drawn from policies
bake(policies) ==
    /\ pc = "build"
    /\ \E merge \in policies :
        LET g == BakedGraph(graph, merge)
            silent_states == {s \in g.nodes : is_silent(s)}
            orders == topological_sort(g, silent_states)
        IN /\ graph' = g
           /\ merged' = merge
           /\ IF orders = {} \/ end \notin g.nodes
              THEN pc' = "error" /\ model' = NoModel
              ELSE /\ pc' = "baked"
                   /\ \E o \in orders : model' = Compile(g, o)
    /\ UNCHANGED <<parameters, result, frame>>

Bake == bake(MergePolicies)

\* The kernels only read model and parameters, so a call made after another
\* call returns what it would return as the first call: each behaviour makes
\* one kernel call.

\* the sequences the kernels are called with
Sequences == UNION {[1..n -> Symbols] : n \in 0..MaxSeqLen}

Raised(op, sequence) == [op |-> op, sequence |-> sequence, kind |-> "ValueError"]

\* Model.forward(sequence)
Forward ==
    /\ pc = "baked"
    /\ result = NoResult
    /\ \E sequence \in Sequences :
        result' = IF BadShape(model, sequence) THEN Raised("forward", sequence)
                  ELSE [op |-> "forward", sequence |-> sequence, kind |-> "table",
                        table |-> _forward(model, parameters, sequence)]
    /\ UNCHANGED <<graph, pc, merged, model, parameters, frame>>

\* Model.backward(sequence)
Backward ==
    /\ pc = "baked"
    /\ result = NoResult
    /\ \E sequence \in Sequences :
        result' = IF BadShape(model, sequence) THEN Raised("backward", sequence)
                  ELSE [op |-> "backward", sequence |-> sequence, kind |-> "table",
                        table |-> _backward(model, parameters, sequence)]
    /\ UNCHANGED <<graph, pc, merged, model, parameters, frame>>

\* Model.log_probability(sequence) of a single sequence, without a path
LogProbability ==
    /\ pc = "baked"
    /\ result = NoResult
    /\ \E sequence \in Sequences :
        result' = IF Len(sequence) = 0
                  THEN [op |-> "log_probability", sequence |-> sequence,
                        kind |-> "IndexError"]
                  ELSE IF BadShape(model, sequence)
                  THEN Raised("log_probability", sequence)
                  ELSE [op |-> "log_probability", sequence |-> sequence,
                        kind |-> "value",
                        value |-> _log_probability(model, parameters, sequence)]
    /\ UNCHANGED <<graph, pc, merged, model, parameters, frame>>

\* Model.viterbi(sequence)
Viterbi ==
    /\ pc = "baked"
    /\ result = NoResult
    /\ \E sequence \in Sequences :
        result' = IF BadShape(model, sequence) THEN Raised("viterbi", sequence)
                  ELSE LET r == _viterbi(model, parameters, sequence)
                       IN [op |-> "viterbi", sequence |-> sequence, kind |-> r.kind,
                           log_likelihood |-> r.log_likelihood, path |-> r.path]
    /\ UNCHANGED <<graph, pc, merged, model, parameters, frame>>

\* Model.forward_backward(sequence, tie)
ForwardBackward ==
    /\ pc = "baked"
    /\ result = NoResult
    /\ \E sequence \in Sequences, tie \in {0, 1} :
        result' = IF BadShape(model, sequence) THEN Raised("forward_backward", sequence)
                  ELSE LET r == _forward_backward(model, parameters, sequence, tie)
                       IN [op |-> "forward_backward", sequence |-> sequence,
                           tie |-> tie, value |-> r, kind |-> r.kind]
    /\ UNCHANGED <<graph, pc, merged, model, parameters, frame>>

\* Model.maximum_a_posteriori(sequence)
MaximumAPosteriori ==
    /\ pc = "baked"
    /\ result = NoResult
    /\ \E sequence \in Sequences :
        result' = IF BadShape(model, sequence)
                  THEN Raised("maximum_a_posteriori", sequence)
                  ELSE LET r == _maximum_a_posteriori(model, parameters, sequence)
                       IN [op |-> "maximum_a_posteriori", sequence |-> sequence,
                           value |-> r, kind |-> r.kind]
    /\ UNCHANGED <<graph, pc, merged, model, parameters, frame>>

Next == AddState \/ AddTransition \/ Bake

Spec == Init /\ [][Next]_vars

\* the builder of the models the kernels are run on
AddKernelTransition == add_transition(KernelEdgeChoices, MaxKernelEdges)

NextKernels ==
    \/ AddKernelTransition
    \/ Bake
    \/ Forward
    \/ Backward
    \/ LogProbability
    \/ Viterbi
    \/ ForwardBackward
    \/ MaximumAPosteriori

SpecKernels == Init /\ [][NextKernels]_vars

(***************************************************************************)
(* Model.train                                                             *)
(***************************************************************************)
\* the add_transition calls of the models that are trained
TrainingEdgeChoices ==
    { <<1, 5, <<1, 2>> >>, <<1, 7, <<1, 2>> >>, <<5, 5, <<1, 2>> >>,
      <<5, 6, <<1, 2>> >>, <<5, 2, <<1, 2>> >>, <<6, 2, <<1, 2>> >>,
      <<7, 2, <<1, 4>> >> }

MaxTrainingEdges == 3

\* the cap on the passes of one Baum-Welch call that are followed
MaxIterations == 2

AddTrainingTransition == add_transition(TrainingEdgeChoices, MaxTrainingEdges)

\* the models that are trained are baked with merge="None", which keeps every
\* state that was added
BakeUnmerged == bake({"None"})

\* the lists of sequences train is called with
TrainingSets == { << <<1, 2>> >>, << <<2>>, <<1>> >>, << <<1>>, <<1, 2>> >> }

\* the lists of sequences that are given labels
LabelledSets == { << <<1>> >>, << <<1, 2>> >>, << <<2>>, <<1>> >>, << <<>> >> }

\* transition_pseudocount, use_pseudocount and edge_inertia
Estimate(transition_pseudocount, use_pseudocount, edge_inertia) ==
    [transition_pseudocount |-> transition_pseudocount,
     use_pseudocount |-> use_pseudocount,
     edge_inertia |-> edge_inertia]

DefaultEstimate == Estimate(<<0, 1>>, 0, <<0, 1>>)

EstimateArguments ==
    { DefaultEstimate, Estimate(<<1, 1>>, 0, <<0, 1>>), Estimate(<<0, 1>>, 1, <<0, 1>>),
      Estimate(<<0, 1>>, 0, <<1, 2>>), Estimate(<<0, 1>>, 0, <<1, 1>>),
      Estimate(<<1, 1>>, 1, <<1, 2>>) }

\* max_iterations=None, the default
None == -1

\* stop_threshold (a difference of log values), min_iterations and
\* max_iterations
DefaultLoop ==
    [stop_threshold |-> <<1, 1>>, min_iterations |-> 0, max_iterations |-> None]

LoopArguments ==
    [stop_threshold : {<<1, 1>>}, min_iterations : {0, 2}, max_iterations : {None, 0, 1}]
        \cup {[DefaultLoop EXCEPT !.stop_threshold = <<2, 1>>]}

\* the keyword arguments of the Baum-Welch calls: one group of arguments
\* varies while the other keeps its default
BaumWelchArguments ==
    {[estimate |-> DefaultEstimate, loop |-> l] : l \in LoopArguments}
        \cup {[estimate |-> e, loop |-> DefaultLoop] : e \in EstimateArguments}

\* the arguments of a pass; emitted_probability_threshold keeps its default
PassArguments(e) ==
    [transition_pseudocount |-> e.transition_pseudocount,
     use_pseudocount |-> e.use_pseudocount,
     edge_inertia |-> e.edge_inertia,
     emitted_probability_threshold |-> <<0, 1>>]

\* self.log_probability(sequences) raises when forward cannot allocate its
\* tables
TrainRaises(M, sequences) == \E j \in 1..Len(sequences) : BadShape(M, sequences[j])

\* Model.train(sequences, algorithm='baum-welch', ...) up to the first test
\* of the while loop of _train_baum_welch
TrainBaumWelch ==
    /\ pc = "baked"
    /\ frame = NoFrame
    /\ \E sequences \in TrainingSets, a \in BaumWelchArguments :
        frame' =
            IF TrainRaises(model, sequences)
            THEN [op |-> "train", algorithm |-> "baum-welch", pc |-> "ValueError",
                  sequences |-> sequences, estimate |-> a.estimate, loop |-> a.loop]
            ELSE [op |-> "train", algorithm |-> "baum-welch", pc |-> "while",
                  sequences |-> sequences, estimate |-> a.estimate, loop |-> a.loop,
                  iteration |-> 0, improvement |-> INF,
                  log_probability_sum |->
                      log_probability_sum(model, parameters, sequences, 1, NEGINF),
                  last_log_probability_sum |->
                      log_probability_sum(model, parameters, sequences, 1, NEGINF)]
    /\ UNCHANGED <<graph, pc, merged, model, parameters, result>>

\* the condition of the while loop
WhileCondition ==
    \/ Gt(frame.improvement, frame.loop.stop_threshold)
    \/ frame.iteration < frame.loop.min_iterations

\* if max_iterations and iteration >= max_iterations
BreakCondition ==
    /\ frame.loop.max_iterations # None
    /\ frame.loop.max_iterations # 0
    /\ frame.iteration >= frame.loop.max_iterations

\* the frame after one more pass that left the model at M and the
\* parameters at P
AfterPass(M, P, trained_log_probability_sum) ==
    [frame EXCEPT
        !.iteration = @ + 1,
        !.improvement = LSub(trained_log_probability_sum, frame.last_log_probability_sum),
        !.last_log_probability_sum = trained_log_probability_sum]

\* one turn of the while loop of _train_baum_welch
BaumWelchIteration ==
    /\ frame.op = "train" /\ frame.pc = "while"
    /\ WhileCondition /\ ~BreakCondition
    /\ frame.iteration < MaxIterations
    /\ LET t == _train_once_baum_welch(model, parameters, frame.sequences,
                                       PassArguments(frame.estimate))
       IN /\ model' = t.model
          /\ parameters' = t.parameters
    /\ frame' = AfterPass(model', parameters',
                    log_probability_sum(model', parameters', frame.sequences, 1, NEGINF))
    /\ UNCHANGED <<graph, pc, merged, result>>

\* the loop ends; train returns the improvement over the first score
BaumWelchReturn ==
    /\ frame.op = "train" /\ frame.pc = "while"
    /\ ~WhileCondition \/ BreakCondition
    /\ frame' = [frame EXCEPT
                    !.pc = "returned",
                    !.improvement =
                        LSub(log_probability_sum(model, parameters, frame.sequences,
                                                 1, NEGINF),
                             frame.log_probability_sum)]
    /\ UNCHANGED <<graph, pc, merged, model, parameters, result>>

\* Model.train(sequences, algorithm='viterbi', ...)
TrainViterbi ==
    /\ pc = "baked"
    /\ frame = NoFrame
    /\ \E sequences \in TrainingSets, e \in EstimateArguments :
        IF TrainRaises(model, sequences)
        THEN /\ frame' = [op |-> "train", algorithm |-> "viterbi", pc |-> "ValueError",
                          sequences |-> sequences, estimate |-> e]
             /\ UNCHANGED <<model, parameters>>
        ELSE LET t == _train_viterbi(model, parameters, sequences, PassArguments(e))
             IN /\ model' = t.model
                /\ parameters' = t.parameters
                /\ frame' = [op |-> "train", algorithm |-> "viterbi", pc |-> "returned",
                             sequences |-> sequences, estimate |-> e,
                             improvement |->
                                LSub(log_probability_sum(model', parameters', sequences,
                                                         1, NEGINF),
                                     log_probability_sum(model, parameters, sequences,
                                                         1, NEGINF))]
    /\ UNCHANGED <<graph, pc, merged, result>>

\* the label lists for a sequence: one emitting state of the model per symbol,
\* and the path [start] for an empty sequence
Labellings(M, sequence) ==
    IF Len(sequence) = 0 THEN {<<start>>}
    ELSE [1..Len(sequence) -> {At(M.states, k) : k \in 0..(M.silent_start - 1)}]

\* the lists of (sequence, labels) pairs over the sequences
RECURSIVE PairLists(_, _, _)
PairLists(M, sequences, j) ==
    IF j > Len(sequences) THEN {<<>>}
    ELSE {<<[sequence |-> sequences[j], labels |-> labels]>> \o rest :
            labels \in Labellings(M, sequences[j]),
            rest \in PairLists(M, sequences, j + 1)}

\* Model.train(pairs, algorithm='labelled', ...); the improvement it returns
\* is the difference of two path scores and is left out
TrainLabelled ==
    /\ pc = "baked"
    /\ frame = NoFrame
    /\ \E sequences \in LabelledSets, e \in EstimateArguments :
        \E pairs \in PairLists(model, sequences, 1) :
            LET t == _train_labelled(model, parameters, pairs, PassArguments(e))
            IN /\ model' = t.model
               /\ parameters' = t.parameters
               /\ frame' = [op |-> "train", algorithm |-> "labelled", pc |-> "returned",
                            pairs |-> pairs, estimate |-> e]
    /\ UNCHANGED <<graph, pc, merged, result>>

NextTraining ==
    \/ AddTrainingTransition
    \/ BakeUnmerged
    \/ TrainBaumWelch
    \/ BaumWelchIteration
    \/ BaumWelchReturn
    \/ TrainViterbi
    \/ TrainLabelled

SpecTraining == Init /\ [][NextTraining]_vars

(***************************************************************************)
(* Model.sample                                                            *)
(***************************************************************************)
\* the lengths sample is called with; 0 is the default (no length)
SampleLengths == 0..2

\* the cap on the emissions of one sample call that are followed
MaxEmissions == 3

\* the cap on the states of one sample call that are followed (a walk through
\* silent states emits nothing and can go on for ever)
MaxPathLen == 5

\* DiscreteDistribution.sample(): the keys the loop "if value >= rand: return
\* key; rand -= value" can return for rand in [0, 1): the first key (rand can
\* be 0.0) and every later key of positive probability
Samples(params) == {c \in DOMAIN params : c = 1 \/ Gt(params[c], <<0, 1>>)}

\* cum_probabilities[l]: the running sum over the out-edges of the state
\* that edge l leaves, up to and including l
CumProbability(M, l) ==
    SumSeq(SubSeq(M.out_transition_log_probabilities,
                  At(M.out_edge_count, OwnerOf(M.out_edge_count, l)) + 1, l + 1),
           1, <<0, 1>>)

\* cum_probabilities[l - 1] within the edges of state i, or 0 for its first edge
CumBefore(M, i, l) ==
    IF l = At(M.out_edge_count, i) THEN <<0, 1>> ELSE CumProbability(M, l - 1)

\* the edges the loop "if cum_probabilities[k] > sample: break" over the
\* out-edges of state i can stop at when sample is drawn from [0, limit)
\* (strict) or [0, limit] (not strict)
Selected(M, i, limit, strict) ==
    {l \in At(M.out_edge_count, i)..(At(M.out_edge_count, i + 1) - 1) :
        /\ Gt(CumProbability(M, l), CumBefore(M, i, l))
        /\ IF strict THEN Gt(limit, CumBefore(M, i, l))
           ELSE ~Gt(CumBefore(M, i, l), limit)}

\* the loop can run to its end without a break: some sample is not below
\* the last cumulative probability (or the state has no out-edge)
Unselected(M, i, limit, strict) ==
    \/ At(M.out_edge_count, i) = At(M.out_edge_count, i + 1)
    \/ IF strict
       THEN Gt(limit, CumProbability(M, At(M.out_edge_count, i + 1) - 1))
       ELSE ~Gt(CumProbability(M, At(M.out_edge_count, i + 1) - 1), limit)

\* the value of the loop variable k after "for k in xrange(from, to)" ran to
\* its end
AfterLoop(k, from, to) == IF from < to THEN to - 1 ELSE k

\* the sum of cum_probabilities[k] over the edges from..to-1 that do not lead
\* to end
RECURSIVE NotToEnd(_, _, _, _)
NotToEnd(M, from, to, acc) ==
    IF from >= to THEN acc
    ELSE NotToEnd(M, from + 1, to,
                  IF At(M.out_transitions, from) # M.end_index
                  THEN PAdd(acc, CumProbability(M, from)) ELSE acc)

\* Model.sample(length, path=True) up to the first test of the while loop
Sample ==
    /\ pc = "baked"
    /\ frame = NoFrame
    /\ \E length \in SampleLengths :
        frame' = [op |-> "sample", pc |-> "while", length |-> length,
                  i |-> model.start_index, j |-> model.start_index,
                  k |-> Len(model.states) - 1, n |-> 0,
                  emissions |-> <<>>, sequence_path |-> <<>>]
    /\ UNCHANGED <<graph, pc, merged, model, parameters, result>>

\* the frame after the state was appended and, for an emitting state, the
\* symbol x was emitted
Emitted(x) ==
    IF frame.i < model.silent_start
    THEN [frame EXCEPT !.sequence_path = Append(@, At(model.states, frame.i)),
                       !.emissions = Append(@, x), !.n = @ + 1]
    ELSE [frame EXCEPT !.sequence_path = Append(@, At(model.states, frame.i))]

\* the while loop is left when i = end: the path gets self.end
Leave(f) ==
    IF f.i = model.end_index
    THEN [f EXCEPT !.pc = "returned", !.sequence_path = Append(@, end)]
    ELSE f

\* the second draw, over the out-edges of state f.i, with the sample drawn
\* from [0, cumulative]
SecondDraw(f, cumulative, k) ==
    {Leave([f EXCEPT !.i = At(model.out_transitions, l), !.k = l]) :
        l \in Selected(model, f.i, cumulative, FALSE)}
    \cup (IF Unselected(model, f.i, cumulative, FALSE)
          THEN {Leave([f EXCEPT !.k = AfterLoop(k, At(model.out_edge_count, f.i),
                                                At(model.out_edge_count, f.i + 1))])}
          ELSE {})

\* the branch taken when a length is given, the model is finite and the
\* first draw moved to end: f is the frame after the first draw
AvoidEnd(f) ==
    IF /\ At(model.out_edge_count, f.j + 1) - At(model.out_edge_count, f.j) = 1
       /\ At(model.out_transitions, At(model.out_edge_count, f.j)) = model.end_index
    THEN {Leave(f)}
    ELSE IF f.k + 1 > Len(model.states)
    THEN {[f EXCEPT !.pc = "IndexError"]}
    ELSE SecondDraw(f,
            NotToEnd(model, At(model.out_edge_count, f.k),
                     At(model.out_edge_count, f.k + 1), <<0, 1>>),
            AfterLoop(f.k, At(model.out_edge_count, f.k),
                      At(model.out_edge_count, f.k + 1)))

\* the frames after the first draw of a turn of the loop, from the frame f
FirstDraw(f) ==
    {[f EXCEPT !.j = f.i, !.i = At(model.out_transitions, l), !.k = l] :
        l \in Selected(model, f.i, <<1, 1>>, TRUE)}
    \cup (IF Unselected(model, f.i, <<1, 1>>, TRUE)
          THEN {[f EXCEPT !.j = f.i,
                          !.k = AfterLoop(f.k, At(model.out_edge_count, f.i),
                                          At(model.out_edge_count, f.i + 1))]}
          ELSE {})

\* the frames after a turn of the loop that did not return on the length
Moved(f) ==
    UNION {IF f.length # 0 /\ model.finite = 1 /\ g.i = model.end_index
           THEN AvoidEnd(g) ELSE {Leave(g)} : g \in FirstDraw(f)}

\* one turn of the while loop of Model._sample
SampleStep ==
    /\ frame.op = "sample" /\ frame.pc = "while"
    /\ frame.n < MaxEmissions
    /\ Len(frame.sequence_path) < MaxPathLen
    /\ \E x \in (IF frame.i < model.silent_start
                 THEN Samples(parameters[distribution(At(model.states, frame.i))])
                 ELSE {0}) :
        IF frame.length # 0 /\ Emitted(x).n >= frame.length
        THEN frame' = [Emitted(x) EXCEPT !.pc = "returned"]
        ELSE frame' \in Moved(Emitted(x))
    /\ UNCHANGED <<graph, pc, merged, model, parameters, result>>

NextSampling == AddKernelTransition \/ Bake \/ Sample \/ SampleStep

SpecSampling == Init /\ [][NextSampling]_vars

(***************************************************************************)
(* The builder called with any probability                                 *)
(***************************************************************************)
\* (a, b, probability) triples with probabilities inside and outside [0, 1]
BuilderEdgeChoices ==
    { <<1, 5, <<1, 2>> >>, <<1, 5, <<3, 2>> >>,
      <<5, 5, <<1, 2>> >>, <<5, 5, <<2, 1>> >>,
      <<5, 2, <<1, 2>> >>, <<5, 2, <<-1, 2>> >>,
      <<1, 7, <<1, 1>> >>, <<7, 2, <<0, 1>> >> }

MaxBuilderEdges == 4

AddAnyTransition == add_transition(BuilderEdgeChoices, MaxBuilderEdges)

NextBuilder == AddState \/ AddAnyTransition

SpecBuilder == Init /\ [][NextBuilder]_vars

(***************************************************************************)
(* MixtureDistribution                                                     *)
(***************************************************************************)
\* the parameters of the DiscreteDistribution children a mixture is built from
MixtureChildren ==
    { [c \in {1, 2} |-> <<1, 2>>],
      [c \in {1} |-> <<1, 1>>],
      [c \in {1, 2} |-> IF c = 1 THEN <<1, 4>> ELSE <<3, 4>>] }

\* the largest number of children of a mixture
MaxChildren == 3

\* the weights argument for n children: None, or a list of n weights
MixtureWeights(n) ==
    {<<>>} \cup [1..n -> {<<1, 1>>, <<3, 1>>}]

\* MixtureDistribution.__init__: weights / sum(weights), or ones(n) / n
NormalizedWeights(n, weights) ==
    IF weights # <<>>
    THEN [i \in 1..n |-> PDiv(weights[i], SumSeq(weights, 1, <<0, 1>>))]
    ELSE [i \in 1..n |-> PDiv(<<1, 1>>, <<n, 1>>)]

\* numpy.sum([cexp(d[i].log_probability(symbol)) * w[i] for i in xrange(n)])
RECURSIVE MixtureSum(_, _, _, _, _)
MixtureSum(d, w, symbol, i, n) ==
    IF i > n THEN <<0, 1>>
    ELSE PAdd(PMul(cexp(log_probability(d[i], symbol)), w[i]),
              MixtureSum(d, w, symbol, i + 1, n))

\* MixtureDistribution(distributions, weights)
MixtureInit ==
    /\ pc = "build"
    /\ frame = NoFrame
    /\ \E n \in 1..MaxChildren :
        \E distributions \in [1..n -> MixtureChildren] :
            \E weights \in MixtureWeights(n) :
                frame' = [op |-> "mixture", pc |-> "constructed",
                          parameters |-> <<distributions,
                                           NormalizedWeights(n, weights)>>]
    /\ UNCHANGED <<graph, pc, merged, model, parameters, result>>

\* MixtureDistribution.log_probability(symbol):
\* "(d, w), n = self.parameters, len(self.parameters)" makes n the length of
\* the parameters list, and d[i] raises IndexError past the last child
MixtureLogProbability ==
    /\ frame.op = "mixture" /\ frame.pc = "constructed"
    /\ \E symbol \in Symbols :
        LET n == Len(frame.parameters)
        IN  IF Len(frame.parameters[1]) < n
            THEN frame' = [op |-> "mixture", pc |-> "IndexError",
                           parameters |-> frame.parameters, symbol |-> symbol]
            ELSE frame' = [op |-> "mixture", pc |-> "returned",
                           parameters |-> frame.parameters, symbol |-> symbol,
                           result |-> log(MixtureSum(frame.parameters[1],
                                                     frame.parameters[2],
                                                     symbol, 1, n))]
    /\ UNCHANGED <<graph, pc, merged, model, parameters, result>>

NextMixture == MixtureInit \/ MixtureLogProbability

SpecMixture == Init /\ [][NextMixture]_vars

(***************************************************************************)
(* bake on graphs with chains of silent states                             *)
(***************************************************************************)
\* the add_transition calls of the models the merge is run on
MergeEdgeChoices ==
    { <<1, 3, <<1, 2>> >>, <<1, 4, <<1, 4>> >>, <<1, 5, <<1, 2>> >>,
      <<3, 4, <<1, 1>> >>, <<3, 5, <<1, 1>> >>, <<4, 5, <<1, 1>> >>,
      <<4, 2, <<1, 1>> >>, <<5, 2, <<1, 1>> >>, <<2, 3, <<1, 1>> >> }

MaxMergeEdges == 5

AddMergeTransition == add_transition(MergeEdgeChoices, MaxMergeEdges)

NextMerge == AddMergeTransition \/ Bake

SpecMerge == Init /\ [][NextMerge]_vars

(***************************************************************************)
(* bake on graphs with three tied states                                   *)
(***************************************************************************)
\* the add_transition calls of the models with the tied states 5, 6 and 8
TieEdgeChoices ==
    { <<1, 5, <<1, 2>> >>, <<1, 7, <<1, 2>> >>, <<1, 8, <<1, 2>> >>,
      <<5, 6, <<1, 2>> >>, <<5, 2, <<1, 2>> >>, <<6, 8, <<1, 2>> >>,
      <<6, 2, <<1, 2>> >>, <<7, 2, <<1, 1>> >>, <<8, 2, <<1, 1>> >>,
      <<8, 5, <<1, 2>> >> }

MaxTieEdges == 4

AddTieTransition == add_transition(TieEdgeChoices, MaxTieEdges)

NextTies == AddTieTransition \/ Bake

SpecTies == Init /\ [][NextTies]_vars

(***************************************************************************)
(* Model.log_probability(sequence, path)                                   *)
(***************************************************************************)
MaxPathStates == 3

\* the paths handed to log_probability: states of the model, by index
Paths(M) == UNION {[1..p -> 0..(Len(M.states) - 1)] : p \in 1..MaxPathStates}

\* the scan of the out-edges l of state ki for the target ji: the index of
\* the edge found, -1 when the last out-edge is passed without a match
\* (return NEGINF), -2 when the range holds no edge and the loop body never
\* runs
RECURSIVE ScanOut(_, _, _, _)
ScanOut(M, ki, ji, l) ==
    IF l >= At(M.out_edge_count, ki + 1) THEN -2
    ELSE IF At(M.out_transitions, l) = ji THEN l
    ELSE IF l = At(M.out_edge_count, ki + 1) - 1 THEN -1
    ELSE ScanOut(M, ki, ji, l + 1)

\* Model._log_probability_of_path: the loop over j = 1..p-1 with the symbol
\* counter i; sequence[i] past the end of the sequence is "IndexError"
RECURSIVE _log_probability_of_path(_, _, _, _, _, _, _)
_log_probability_of_path(M, P, sequence, path, j, i, log_score) ==
    IF j >= Len(path) THEN [kind |-> "value", value |-> log_score]
    ELSE LET ki == At(path, j - 1)
             ji == At(path, j)
             l == ScanOut(M, ki, ji, At(M.out_edge_count, ki))
             moved == IF l >= 0
                      THEN LAdd(log_score, At(M.out_transition_log_probabilities, l))
                      ELSE log_score
         IN IF l = -1 THEN [kind |-> "value", value |-> NEGINF]
            ELSE IF ji >= M.silent_start
            THEN _log_probability_of_path(M, P, sequence, path, j + 1, i, moved)
            ELSE IF i >= Len(sequence) THEN [kind |-> "IndexError", value |-> moved]
            ELSE _log_probability_of_path(M, P, sequence, path, j + 1, i + 1,
                    LAdd(moved, log_probability(P[distribution(At(M.states, ji))],
                                                At(sequence, i))))

\* Model.log_probability(sequence, path) with a single sequence and a path
\* that is not empty.  _log_probability_of_path is a cdef function returning
\* a double: an exception raised inside it either propagates or is written
\* to stderr while the call returns 0.0, depending on the build.
LogProbabilityOfPath ==
    /\ pc = "baked"
    /\ result = NoResult
    /\ \E sequence \in Sequences, path \in Paths(model), propagates \in BOOLEAN :
        result' =
            IF Len(sequence) = 0
            THEN [op |-> "log_probability_of_path", sequence |-> sequence,
                  path |-> path, kind |-> "IndexError"]
            ELSE LET r == _log_probability_of_path(model, parameters, sequence,
                                                   path, 1, 0, ZeroLog)
                 IN IF r.kind = "IndexError" /\ propagates
                    THEN [op |-> "log_probability_of_path", sequence |-> sequence,
                          path |-> path, kind |-> "IndexError"]
                    ELSE [op |-> "log_probability_of_path", sequence |-> sequence,
                          path |-> path, kind |-> "value",
                          value |-> IF r.kind = "IndexError" THEN ZeroLog ELSE r.value]
    /\ UNCHANGED <<graph, pc, merged, model, parameters, frame>>

NextPaths ==
    \/ AddKernelTransition
    \/ Bake
    \/ LogProbabilityOfPath

SpecPaths == Init /\ [][NextPaths]_vars

(***************************************************************************)
(* Properties of bake                                                      *)
(***************************************************************************)
StateIndices == 0..(Len(model.states) - 1)

OutEdgesOf(k) == At(model.out_edge_count, k)..(At(model.out_edge_count, k + 1) - 1)

RECURSIVE SumOut(_, _)
SumOut(l, to) ==
    IF l >= to THEN <<0, 1>>
    ELSE PAdd(cexp(At(model.out_transition_log_probabilities, l)), SumOut(l + 1, to))

\* the sum of the outgoing transition probabilities of state k
OutProbability(k) == SumOut(At(model.out_edge_count, k), At(model.out_edge_count, k + 1))

\* C1: after bake, the outgoing transition probabilities of every state of the
\* compiled model other than end sum to 1.  Stated here for the states that
\* have an outgoing edge at all (the sum of a state without one is empty).
C1_OutgoingSumToOne ==
    pc = "baked" =>
        \A k \in StateIndices :
            (k # model.end_index /\ OutEdgesOf(k) # {}) => OutProbability(k) = <<1, 1>>

\* C2: in a compiled model every edge between two silent states goes from a
\* lower to a strictly higher index, and the emitting states are exactly the
\* states below silent_start.
C2_SilentTopologicalOrder ==
    pc = "baked" =>
        /\ \A k \in StateIndices : \A l \in OutEdgesOf(k) :
              (k >= model.silent_start /\ At(model.out_transitions, l) >= model.silent_start)
                  => k < At(model.out_transitions, l)
        /\ \A k \in StateIndices : is_silent(At(model.states, k)) <=> k >= model.silent_start

\* a compiled model with an emitting state and two edges between silent states
C2_Witness ==
    /\ pc = "baked"
    /\ model.silent_start > 0
    /\ Cardinality({l \in 0..(Len(model.out_transitions) - 1) :
            /\ At(model.out_transitions, l) >= model.silent_start
            /\ \E k \in StateIndices : k >= model.silent_start /\ l \in OutEdgesOf(k)}) >= 2

(***************************************************************************)
(* Properties of the kernels.  The reference values are sums and maxima    *)
(* over the state paths of the compiled model, followed edge by edge along *)
(* the out-edge table, without a DP table.                                 *)
(***************************************************************************)
Called(op) == result.op = op /\ result.kind # "ValueError" /\ result.kind # "IndexError"

\* a path may stop in state k after t symbols: in end after all n symbols of a
\* finite model, in an emitting state after all n symbols of an infinite one
Final(k, t, n) ==
    /\ t = n
    /\ IF model.finite = 1 THEN k = model.end_index ELSE k < model.silent_start

\* the sum (best = FALSE) or the maximum (best = TRUE) over all paths that
\* leave state k with t symbols emitted, emit the rest of the sequence and
\* stop, of the product of the transition and emission terms on the way;
\* e is the emission table
RECURSIVE Completion(_, _, _, _, _)
RECURSIVE CompletionEdges(_, _, _, _, _, _)
Completion(k, t, e, best, acc) ==
    CompletionEdges(k, t, e, best, At(model.out_edge_count, k),
                    IF Final(k, t, Len(e)) THEN <<1, 1>> ELSE <<0, 1>>)

CompletionEdges(k, t, e, best, l, acc) ==
    IF l >= At(model.out_edge_count, k + 1) THEN acc
    ELSE LET li == At(model.out_transitions, l)
             w == At(model.out_transition_log_probabilities, l)
             term == IF li < model.silent_start
                     THEN IF t < Len(e)
                          THEN LAdd(LAdd(w, At(At(e, t), li)),
                                    Completion(li, t + 1, e, best, 0))
                          ELSE <<0, 1>>
                     ELSE LAdd(w, Completion(li, t, e, best, 0))
         IN CompletionEdges(k, t, e, best, l + 1,
                            IF best THEN Max(acc, term) ELSE PAdd(acc, term))

\* the probability of the sequence: the sum over all paths from start
PathProbability(sequence) ==
    Completion(model.start_index, 0,
               EmissionTable(model, parameters, sequence, FALSE), FALSE, 0)

\* the best weighted score of a path from start
BestPathScore(sequence) ==
    Completion(model.start_index, 0,
               EmissionTable(model, parameters, sequence, TRUE), TRUE, 0)

\* the out-edge k -> l of the compiled model, or -1
EdgeIndex(k, l) ==
    IF \E x \in OutEdgesOf(k) : At(model.out_transitions, x) = l
    THEN CHOOSE x \in OutEdgesOf(k) : At(model.out_transitions, x) = l
    ELSE -1

\* the weighted score of a path of (index, state) pairs from its step j on
RECURSIVE ScoreOfPath(_, _, _)
ScoreOfPath(path, e, j) ==
    IF j > Len(path) THEN <<1, 1>>
    ELSE LET k == path[j - 1][2]
             l == path[j][2]
             x == EdgeIndex(k, l)
             step == IF x = -1 THEN <<0, 1>>
                     ELSE IF l < model.silent_start
                     THEN IF path[j][1] \in 1..Len(e)
                          THEN LAdd(At(model.out_transition_log_probabilities, x),
                                    At(At(e, path[j][1] - 1), l))
                          ELSE <<0, 1>>
                     ELSE At(model.out_transition_log_probabilities, x)
         IN LAdd(step, ScoreOfPath(path, e, j + 1))

\* C3: f[n, end_index] of a finite model is the log of the sum, over all paths
\* from start to end that emit the sequence, of the products of the transition
\* and emission probabilities.
C3_ForwardIsPathSum ==
    (Called("forward") /\ model.finite = 1) =>
        At(At(result.table, Len(result.sequence)), model.end_index)
            = PathProbability(result.sequence)

\* C4: the sequence probability read from the forward table equals
\* b[0, start_index] of the backward table.
C4_ForwardEqualsBackward ==
    Called("backward") =>
        At(At(result.table, 0), model.start_index)
            = _log_probability(model, parameters, result.sequence)

C6_ViterbiPathShape ==
    (Called("viterbi") /\ model.finite = 1 /\ result.kind # "None") =>
        LET path == result.path
            n == Len(result.sequence)
        IN /\ result.kind = "path"
           /\ path[1] = <<0, model.start_index>>
           /\ path[Len(path)] = <<n, model.end_index>>
           /\ \A j \in 2..Len(path) :
                /\ EdgeIndex(path[j - 1][2], path[j][2]) # -1
                /\ path[j][1] = path[j - 1][1]
                        + (IF path[j][2] < model.silent_start THEN 1 ELSE 0)
           /\ Cardinality({j \in 1..Len(path) : path[j][2] < model.silent_start}) = n

C6_Witness ==
    /\ Called("viterbi") /\ model.finite = 1 /\ result.kind = "path"
    /\ Len(result.sequence) >= 1
    /\ \E j \in 2..(Len(result.path) - 1) : result.path[j][2] >= model.silent_start

\* the sequence log probability the forward algorithm gives for the sequence
\* of the last call
ForwardLogProbability == _log_probability(model, parameters, result.sequence)

WeightsAtMostOne ==
    \A i1 \in 1..model.silent_start : Le(model.state_weights[i1], ZeroLog)

Impossible == PathProbability(result.sequence) = NEGINF

\* C8: for a sequence no path can emit, the sequence log-probability of forward
\* and of log_probability is exactly -inf, and viterbi returns (-inf, None).
C8_ImpossibleSequence ==
    /\ (Called("forward") /\ Impossible) =>
          SequenceLogProbability(model, result.table, Len(result.sequence)) = NEGINF
    /\ (Called("log_probability") /\ Impossible) => result.value = NEGINF
    /\ (Called("viterbi") /\ Impossible) =>
          result.kind = "None" /\ result.log_likelihood = NEGINF

\* the states that share the distribution object of emitting state i
TieClass(i) ==
    {j \in 0..(model.silent_start - 1) :
        distribution(At(model.states, j)) = distribution(At(model.states, i))}

\* the sum over the emitting states i of exp(W[i]) / div(i)
RECURSIVE WeightSum(_, _, _)
WeightSum(row, i, shared) ==
    IF i >= Len(row) THEN <<0, 1>>
    ELSE PAdd(LSub(cexp(At(row, i)),
                   IF shared THEN <<Cardinality(TieClass(i)), 1>> ELSE <<1, 1>>),
              WeightSum(row, i + 1, shared))

ReturnedWeights ==
    /\ Called("forward_backward") /\ result.kind = "tables"
    /\ Gt(ForwardLogProbability, NEGINF)

\* C9: for a sequence with log P(x) > -inf, the emission weights that
\* forward_backward returns sum to 1 over the emitting states at every t, with
\* tie aggregation and without.
C9_PosteriorSumsToOne ==
    ReturnedWeights =>
        \A t \in 1..Len(result.sequence) :
            WeightSum(result.value.emission_weights[t], 0, FALSE) = <<1, 1>>

\* C9, amended: without tie aggregation the emission weights sum to 1 over the
\* emitting states at every t; with tie aggregation every member of a tie class
\* carries the class's combined weight, and the weights sum to 1 once each is
\* divided by the size of its class.
C9_PosteriorSumsToOnePerClass ==
    ReturnedWeights =>
        \A t \in 1..Len(result.sequence) :
            WeightSum(result.value.emission_weights[t], 0, result.tie = 1) = <<1, 1>>

C9_Witness ==
    /\ ReturnedWeights /\ result.tie = 1 /\ Len(result.sequence) = 2
    /\ \E i \in 0..(model.silent_start - 1) : Cardinality(TieClass(i)) > 1

C9_WitnessUntied ==
    /\ ReturnedWeights /\ result.tie = 0 /\ Len(result.sequence) = 2
    /\ model.silent_start > 1

\* the emission weights of the last call's sequence without tie aggregation
UntiedWeights ==
    _forward_backward(model, parameters, result.sequence, 0).emission_weights

RECURSIVE ClassWeight(_, _, _)
ClassWeight(row, i, j) ==
    IF j >= Len(row) THEN NEGINF
    ELSE IF j \in TieClass(i) THEN pair_lse(At(row, j), ClassWeight(row, i, j + 1))
    ELSE ClassWeight(row, i, j + 1)

\* C10: after forward_backward with tie aggregation, two emitting states that
\* share a distribution object have the same emission weight at every t, the
\* combined weight of all the states of their class.
C10_TiedWeightsCombined ==
    (Called("forward_backward") /\ result.kind = "tables" /\ result.tie = 1) =>
        \A t \in 1..Len(result.sequence) : \A i \in 0..(model.silent_start - 1) :
            /\ \A j \in TieClass(i) :
                  At(result.value.emission_weights[t], i)
                      = At(result.value.emission_weights[t], j)
            /\ At(result.value.emission_weights[t], i) = ClassWeight(UntiedWeights[t], i, 0)

C10_Witness ==
    /\ Called("forward_backward") /\ result.kind = "tables" /\ result.tie = 1
    /\ \E t \in 1..Len(result.sequence) : \E i \in 0..(model.silent_start - 1) :
          \E j \in TieClass(i) :
              /\ At(UntiedWeights[t], i) # At(UntiedWeights[t], j)
              /\ IsNum(At(UntiedWeights[t], i))

\* C11: forward_backward and maximum_a_posteriori return (None, None) exactly
\* when the log_probability of the sequence is -inf, on finite and on infinite
\* models.
C11_NoneIffImpossible ==
    (Called("forward_backward") \/ Called("maximum_a_posteriori")) =>
        (result.kind = "None" <=> ForwardLogProbability = NEGINF)

\* other log-weights a state can be given
OtherWeights == {<<1, 2>>, <<3, 1>>}

\* the compiled models that differ from model in the state weights only
Reweighted ==
    {[model EXCEPT !.state_weights = w] : w \in [1..model.silent_start -> OtherWeights]}

\* C12: a model that differs from the baked one only in the weights of its
\* states gives the same forward table, backward table, log_probability and
\* forward_backward result for the sequence.
C12_WeightsOnlyInViterbi ==
    \A M \in (IF pc = "baked" /\ result # NoResult THEN Reweighted ELSE {}) :
        /\ Called("forward") => _forward(M, parameters, result.sequence) = result.table
        /\ Called("backward") => _backward(M, parameters, result.sequence) = result.table
        /\ Called("log_probability") =>
              _log_probability(M, parameters, result.sequence) = result.value
        /\ Called("forward_backward") =>
              _forward_backward(M, parameters, result.sequence, result.tie) = result.value

C12_Witness ==
    /\ Called("forward_backward") /\ result.kind = "tables"
    /\ \E M \in Reweighted :
          _viterbi(M, parameters, result.sequence).log_likelihood
              # _viterbi(model, parameters, result.sequence).log_likelihood


(***************************************************************************)
(* Properties of training                                                  *)
(***************************************************************************)
\* the sum of the out-probabilities of state k of the compiled model M
OutMass(M, k) ==
    SumSeq(SubSeq(M.out_transition_log_probabilities,
                  At(M.out_edge_count, k) + 1, At(M.out_edge_count, k + 1)),
           1, <<0, 1>>)

\* a train call has run at least one pass
Trained ==
    /\ frame.op = "train"
    /\ \/ frame.algorithm # "baum-welch" /\ frame.pc = "returned"
       \/ frame.algorithm = "baum-welch" /\ frame.pc # "ValueError" /\ frame.iteration > 0

\* the probability bake gave the out-edge l of state k
BakedProbability(k, l) ==
    graph.edge[<<At(model.states, k), At(model.states, At(model.out_transitions, l))>>].weight

\* C13: a step of training (a Baum-Welch pass, a Viterbi or a labelled run,
\* with any of the pseudocount and inertia arguments) keeps the sum of the
\* out-probabilities of every state at 1 when it was 1 before the step.
C13_TrainingKeepsSumToOne ==
    [][\A k \in StateIndices :
          (pc = "baked" /\ OutMass(model, k) = <<1, 1>>) => OutMass(model', k) = <<1, 1>>]_vars

\* a run with edge_inertia 1/2 changed an out-probability and every state
\* with out-edges still sums to 1
C13_Witness ==
    /\ Trained
    /\ frame.estimate.edge_inertia = <<1, 2>>
    /\ \E k \in StateIndices : \E l \in OutEdgesOf(k) :
          At(model.out_transition_log_probabilities, l) # BakedProbability(k, l)
    /\ \A k \in StateIndices : OutEdgesOf(k) # {} => OutMass(model, k) = <<1, 1>>


\* a Baum-Welch call has returned
BaumWelchReturned ==
    frame.op = "train" /\ frame.algorithm = "baum-welch" /\ frame.pc = "returned"

\* C14: a Baum-Welch call that has returned made at least min_iterations
\* passes, whatever min_iterations, max_iterations and stop_threshold are.
C14_AtLeastMinIterations ==
    BaumWelchReturned => frame.iteration >= frame.loop.min_iterations


\* a Baum-Welch call is in its loop or has returned
InBaumWelch ==
    frame.op = "train" /\ frame.algorithm = "baum-welch" /\ frame.pc # "ValueError"

\* C15: a Baum-Welch call given max_iterations (any integer >= 0) never makes
\* more than max_iterations passes, and it makes no further pass once the
\* improvement is at most stop_threshold and min_iterations passes are made.
C15_AtMostMaxIterations ==
    /\ [](InBaumWelch /\ frame.loop.max_iterations # None
            => frame.iteration <= frame.loop.max_iterations)
    /\ [][(/\ InBaumWelch
           /\ Le(frame.improvement, frame.loop.stop_threshold)
           /\ frame.iteration >= frame.loop.min_iterations)
            => frame.iteration' = frame.iteration]_vars


\* the step is a pass of Baum-Welch, a Viterbi run or a labelled run
BaumWelchPass == frame.op = "train" /\ frame.pc = "while" /\ frame'.pc = "while"

ViterbiRun ==
    frame = NoFrame /\ frame'.op = "train" /\ frame'.algorithm = "viterbi"
        /\ frame'.pc = "returned"

LabelledRun == frame = NoFrame /\ frame'.op = "train" /\ frame'.algorithm = "labelled"

\* the symbols the step collects for the distribution of the emitting state k
CollectedSymbols(k) ==
    IF BaumWelchPass
    THEN Collected(model,
            PadCollected(model,
                CollectSequences(model, parameters, frame.sequences, 1,
                                 NothingCollected(model)),
                TotalCharacters(frame.sequences, 1)),
            k, 1, <<0, 1>>, [symbols |-> <<>>, weights |-> <<>>]).symbols
    ELSE IF ViterbiRun
    THEN At(CollectPairs(model, ViterbiPairs(model, parameters, frame'.sequences, 1),
                         1, NothingLabelled(model)).symbols, k)
    ELSE At(CollectPairs(model, frame'.pairs, 1, NothingLabelled(model)).symbols, k)

\* C16: a training step in which the tie class of a distribution collects
\* no emission sample (or only samples of total weight zero) leaves the
\* parameters of that distribution as they were.
C16_NoSampleKeepsParameters ==
    [][(BaumWelchPass \/ ViterbiRun \/ LabelledRun) =>
          \A k \in 0..(model.silent_start - 1) :
              CollectedSymbols(k) = <<>> =>
                  parameters'[distribution(At(model.states, k))]
                      = parameters[distribution(At(model.states, k))]]_vars


\* the sequences of the call the model can emit, in their order
Emittable(sequences) ==
    SelectSeq(sequences, LAMBDA sequence : PathProbability(sequence) # NEGINF)

\* the call has a sequence the model cannot emit and one it can
MixedSequences(sequences) ==
    Emittable(sequences) # <<>> /\ Emittable(sequences) # sequences

\* the pass leaves the model and the parameters at the record t
PassYields(t) == model' = t.model /\ parameters' = t.parameters

\* C17: a Baum-Welch pass skips every sequence the model cannot emit: the
\* model and the parameters after the pass are those of a pass over the
\* remaining sequences.
C17_ImpossibleSequenceSkipped ==
    [][(BaumWelchPass /\ MixedSequences(frame.sequences)) =>
          PassYields(_train_once_baum_welch(model, parameters,
                         Emittable(frame.sequences), PassArguments(frame.estimate)))]_vars


\* a labelled run has returned
LabelledReturned ==
    frame.op = "train" /\ frame.algorithm = "labelled" /\ frame.pc = "returned"

\* the model after one more labelled run on the same pairs with the same
\* arguments
LabelledAgain ==
    _train_labelled(model, parameters, frame.pairs, PassArguments(frame.estimate)).model

\* another run leaves both transition probability arrays as they are
SecondRunIdentical ==
    /\ LabelledAgain.out_transition_log_probabilities
          = model.out_transition_log_probabilities
    /\ LabelledAgain.in_transition_log_probabilities
          = model.in_transition_log_probabilities

SampleEndedShort ==
    /\ frame.op = "sample" /\ frame.pc = "returned"
    /\ frame.length > 0 /\ model.finite = 1
    /\ frame.i = model.end_index
    /\ frame.n < frame.length

\* the edge to end is the only out-edge of state j
OnlyEdgeToEnd(M, j) ==
    /\ At(M.out_edge_count, j + 1) - At(M.out_edge_count, j) = 1
    /\ At(M.out_transitions, At(M.out_edge_count, j)) = M.end_index

\* C19: when sample() is called with length > 0 on a finite baked model, the
\* walk never moves from a state to end while fewer than length symbols have
\* been emitted, unless the edge to end is that state's only outgoing edge
C19_EndAvoidedUntilLength ==
    SampleEndedShort => OnlyEdgeToEnd(model, frame.j)


(***************************************************************************)
(* Properties of add_transition                                            *)
(***************************************************************************)
\* 0 <= p <= 1
InUnitInterval(p) == Le(<<0, 1>>, p) /\ Le(p, <<1, 1>>)

\* C20: add_transition(a, b, p) with a probability p outside [0, 1] is
\* rejected with an error and adds no edge to the builder graph: every edge of
\* the graph was added with a probability in [0, 1] (add_transition is called
\* without a pseudocount, so the edge's pseudocount is the probability passed)
C20_OutOfRangeRejected ==
    pc = "build" =>
        \A e \in DOMAIN graph.edge : InUnitInterval(graph.edge[e].pseudocount)

(***************************************************************************)
(* Properties of MixtureDistribution                                       *)
(***************************************************************************)
\* MixtureDistribution.log_probability was called
MixtureCalled == frame.op = "mixture" /\ frame.pc # "constructed"

\* C21: MixtureDistribution.log_probability(x) is the log of the weighted sum
\* of the probabilities of x under all of its children, for a mixture of any
\* number of children, with the weights normalised to sum to 1
C21_MixtureIsWeightedSum ==
    MixtureCalled =>
        /\ frame.pc = "returned"
        /\ SumSeq(frame.parameters[2], 1, <<0, 1>>) = <<1, 1>>
        /\ frame.result = log(MixtureSum(frame.parameters[1], frame.parameters[2],
                                         frame.symbol, 1,
                                         Len(frame.parameters[1])))

(***************************************************************************)
(* Properties of the compiled model                                        *)
(***************************************************************************)
\* the number of in-edges and of out-edges of state k in the edge tables
InDegree(M, k) == At(M.in_edge_count, k + 1) - At(M.in_edge_count, k)
OutDegree(M, k) == At(M.out_edge_count, k + 1) - At(M.out_edge_count, k)

\* C22: after bake(), with any merge policy, every state of the compiled model
\* other than start and end has at least one incoming and at least one
\* outgoing edge
C22_NoOrphanAfterBake ==
    pc = "baked" =>
        \A k \in StateIndices :
            (k # model.start_index /\ k # model.end_index)
                => (InDegree(model, k) > 0 /\ OutDegree(model, k) > 0)

\* edge l of the out-edge table is one the merge policy of the bake removes:
\* probability 1, from a silent state other than start, not to end, and to a
\* silent state when the policy is "partial"
Mergeable(M, l, merge) ==
    LET a == At(M.states, OwnerOf(M.out_edge_count, l))
        b == At(M.states, At(M.out_transitions, l))
    IN /\ At(M.out_transition_log_probabilities, l) = ZeroLog
       /\ is_silent(a) /\ a # start /\ b # end
       /\ (merge = "all" \/ (merge = "partial" /\ is_silent(b)))

\* the graph the merge loop of bake(merge) starts from
BeforeMerge(g, merge) == Normalize(OrphanStep(g, merge))

\* the states the merge loop of bake(merge) removed from g0, each with the
\* state its probability-1 edge pointed to
MergedInto(g0, g, merge) ==
    {p \in DOMAIN g0.edge :
        /\ p[1] \notin g.nodes
        /\ g0.edge[p].weight = ZeroLog
        /\ is_silent(p[1]) /\ p[1] # start /\ p[2] # end
        /\ (merge = "all" \/ (merge = "partial" /\ is_silent(p[2])))}

\* no mergeable edge is left in the compiled model
NoMergeableEdge ==
    pc = "baked" =>
        \A l \in 0..(Len(model.out_transitions) - 1) : ~Mergeable(model, l, merged)

\* a bake that removed a into b, both x and b being kept, leaves an edge
\* x -> b with the weight x -> a had
EdgesRedirected ==
    (pc = "build" /\ pc' = "baked") =>
        LET g0 == BeforeMerge(graph, merged')
        IN \A p \in MergedInto(g0, graph', merged') :
            \A x \in graph'.nodes :
                (<<x, p[1]>> \in DOMAIN g0.edge /\ p[2] \in graph'.nodes)
                    => /\ <<x, p[2]>> \in DOMAIN graph'.edge
                       /\ graph'.edge[<<x, p[2]>>].weight = g0.edge[<<x, p[1]>>].weight

\* C23: after bake(merge='partial') no edge a -> b with probability 1 remains
\* where a and b are both silent, a is not start and b is not end; after
\* bake(merge='all') no such edge remains with b silent or emitting; every edge
\* that pointed to a removed state a points to b afterwards with its original
\* probability
C23_MergeToFixedPoint == []NoMergeableEdge /\ [][EdgesRedirected]_vars

(***************************************************************************)
(* Properties of the edge tables                                           *)
(***************************************************************************)
\* the edges of the out-edge table: <<source, target, log-probability,
\* pseudocount>>
OutEdges(M) ==
    {<<OwnerOf(M.out_edge_count, l), At(M.out_transitions, l),
       At(M.out_transition_log_probabilities, l),
       At(M.out_transition_pseudocounts, l)>> :
        l \in 0..(Len(M.out_transitions) - 1)}

\* the edges of the in-edge table, in the same form
InEdges(M) ==
    {<<At(M.in_transitions, l), OwnerOf(M.in_edge_count, l),
       At(M.in_transition_log_probabilities, l),
       At(M.in_transition_pseudocounts, l)>> :
        l \in 0..(Len(M.in_transitions) - 1)}

\* the <<source, target>> state pairs of a set of table edges
StatePairs(M, E) == {<<At(M.states, e[1]), At(M.states, e[2])>> : e \in E}

\* C24: after bake() and after every training pass, the in-edge tables and the
\* out-edge tables describe the same edge set with the same values (for each
\* edge k -> l the same log-probability and pseudocount), and both tables hold
\* exactly one entry per graph edge
C24_EdgeTablesMirror ==
    pc = "baked" =>
        /\ InEdges(model) = OutEdges(model)
        /\ StatePairs(model, OutEdges(model)) = DOMAIN graph.edge
        /\ Len(model.out_transitions) = Cardinality(DOMAIN graph.edge)
        /\ Len(model.in_transitions) = Cardinality(DOMAIN graph.edge)
        /\ Cardinality(OutEdges(model)) = Cardinality(DOMAIN graph.edge)

\* a training run changed the probability of an edge of a state that has
\* several in-edges, in a model where some state has several out-edges
C24_Witness ==
    /\ pc = "baked" /\ Trained
    /\ \E k \in StateIndices : \E l \in OutEdgesOf(k) :
          /\ At(model.out_transition_log_probabilities, l) # BakedProbability(k, l)
          /\ InDegree(model, At(model.out_transitions, l)) > 1
    /\ \E k \in StateIndices : OutDegree(model, k) > 1

(***************************************************************************)
(* Properties of the refit of the distributions                            *)
(***************************************************************************)
\* the tie classes: the distributions of the emitting states of the model
Classes(M) == {distribution(At(M.states, k)) : k \in 0..(M.silent_start - 1)}

\* the emitting states whose distribution is d
Members(M, d) == {k \in 0..(M.silent_start - 1) : distribution(At(M.states, k)) = d}

\* the sum of the emission weights of the states in ks for one character
RECURSIVE MemberWeight(_, _)
MemberWeight(row, ks) ==
    IF ks = {} THEN <<0, 1>>
    ELSE LET k == CHOOSE x \in ks : TRUE
         IN PAdd(At(row, k), MemberWeight(row, ks \ {k}))

\* the characters, from i on, in which the members of the class of d have a
\* total weight above the threshold, with those weights
RECURSIVE ClassSample(_, _, _, _, _)
ClassSample(M, acc, d, i, emitted_probability_threshold) ==
    IF i > Len(acc.emitted_symbols) THEN [symbols |-> <<>>, weights |-> <<>>]
    ELSE LET rest == ClassSample(M, acc, d, i + 1, emitted_probability_threshold)
             w == MemberWeight(acc.emission_weights[i], Members(M, d))
         IN IF Gt(w, emitted_probability_threshold)
            THEN [symbols |-> <<acc.emitted_symbols[i]>> \o rest.symbols,
                  weights |-> <<w>> \o rest.weights]
            ELSE rest

\* the symbols of one labelled sequence, from label j and observation i on,
\* whose label is a state of the class of d
RECURSIVE ClassSymbolsOf(_, _, _, _, _)
ClassSymbolsOf(M, pair, d, j, i) ==
    IF j > Len(pair.labels) THEN <<>>
    ELSE IF is_silent(pair.labels[j]) THEN ClassSymbolsOf(M, pair, d, j + 1, i)
    ELSE (IF distribution(pair.labels[j]) = d THEN <<At(pair.sequence, i)>> ELSE <<>>)
         \o ClassSymbolsOf(M, pair, d, j + 1, i + 1)

\* the same over the pairs from pair j on
RECURSIVE ClassSymbols(_, _, _, _)
ClassSymbols(M, pairs, d, j) ==
    IF j > Len(pairs) THEN <<>>
    ELSE ClassSymbolsOf(M, pairs[j], d, 1, 0) \o ClassSymbols(M, pairs, d, j + 1)

\* calls is one call per tie class of M, each with the sample sample[d]
OncePerClass(M, calls, sample) ==
    /\ Len(calls) = Cardinality(Classes(M))
    /\ \A d \in Classes(M) :
          \E c \in 1..Len(calls) :
              /\ distribution(At(M.states, calls[c].state)) = d
              /\ calls[c].sample = sample[d]

\* the from_sample calls of a Baum-Welch pass over what the pass collected
WeightedOncePerClass(M, acc, emitted_probability_threshold) ==
    OncePerClass(M, WeightedCalls(M, acc, 0, {}, emitted_probability_threshold),
                 [d \in Classes(M) |->
                     ClassSample(M, acc, d, 1, emitted_probability_threshold)])

\* the from_sample calls of a labelled pass over the pairs
LabelledOncePerClass(M, pairs) ==
    OncePerClass(M, LabelledCalls(M, CollectPairs(M, pairs, 1, NothingLabelled(M)).symbols,
                                  0, {}),
                 [d \in Classes(M) |->
                     [symbols |-> ClassSymbols(M, pairs, d, 1),
                      weights |-> Ones(ClassSymbols(M, pairs, d, 1))]])

TiedModelTrained ==
    /\ pc = "baked" /\ Trained
    /\ Cardinality(Classes(model)) = 2
    /\ model.silent_start = 3

C26_TieRowsAreClasses ==
    pc = "baked" =>
        /\ \A k \in 0..(model.silent_start - 1) :
              /\ Range(TiedRow(model, k)) = TieClass(k) \ {k}
              /\ Len(TiedRow(model, k)) = Cardinality(TieClass(k) \ {k})
              /\ k \notin Range(TiedRow(model, k))
              /\ -1 \notin Range(TiedRow(model, k))
        /\ \A i, j \in 0..(model.silent_start - 1) :
              j \in Range(TiedRow(model, i)) <=> i \in Range(TiedRow(model, j))

\* a compiled model with three tied states and a fourth emitting state
C26_Witness ==
    /\ pc = "baked"
    /\ model.silent_start = 4
    /\ \E k \in 0..(model.silent_start - 1) : Len(TiedRow(model, k)) = 2
    /\ \E k \in 0..(model.silent_start - 1) : Len(TiedRow(model, k)) = 0

(***************************************************************************)
(* Properties of the edge update                                           *)
(***************************************************************************)
\* transition_counts as the doubles the edge update reads
AsDoubles(counts) ==
    [k1 \in 1..Len(counts) |-> [l1 \in 1..Len(counts[k1]) |-> <<counts[k1][l1], 1>>]]

\* norm of a labelled pass over pairs with the arguments e
LabelledNorm(M, pairs, e) ==
    Norm(M, AsDoubles(CollectPairs(M, pairs, 1, NothingLabelled(M)).transition_counts),
         e.transition_pseudocount, e.use_pseudocount)

\* norm of a Baum-Welch pass over sequences with the arguments e
BaumWelchNorm(M, P, sequences, e) ==
    Norm(M, CollectSequences(M, P, sequences, 1, NothingCollected(M)).expected_transitions,
         e.transition_pseudocount, e.use_pseudocount)

\* the out-edges of state k, and the in-edge entries with source k, are the
\* same in M and N
RowKept(M, N, k) ==
    /\ \A l \in At(M.out_edge_count, k)..(At(M.out_edge_count, k + 1) - 1) :
          At(N.out_transition_log_probabilities, l)
              = At(M.out_transition_log_probabilities, l)
    /\ \A l \in 0..(Len(M.in_transitions) - 1) :
          At(M.in_transitions, l) = k
              => At(N.in_transition_log_probabilities, l)
                    = At(M.in_transition_log_probabilities, l)

\* every state whose norm is 0 keeps its row from M to N
ZeroNormKept(M, N, norm) ==
    \A k \in 0..(Len(M.states) - 1) : At(norm, k) = <<0, 1>> => RowKept(M, N, k)

\* C27: in a training pass, for every source state k whose normaliser norm[k]
\* is 0 (no expected or counted transition out of k and no pseudocount), the
\* outgoing log-probabilities of k and the matching in-edge entries are left
\* unchanged by the edge update
C27_ZeroNormRowKept ==
    [][/\ BaumWelchPass =>
            ZeroNormKept(model, model',
                BaumWelchNorm(model, parameters, frame.sequences, frame.estimate))
       /\ ViterbiRun =>
            ZeroNormKept(model, model',
                LabelledNorm(model, ViterbiPairs(model, parameters, frame'.sequences, 1),
                             frame'.estimate))
       /\ LabelledRun =>
            ZeroNormKept(model, model',
                LabelledNorm(model, frame'.pairs, frame'.estimate))]_vars

\* a labelled run has returned in which a state with an out-edge had norm 0
\* and an edge of another state got a new probability
C27_Witness ==
    /\ LabelledReturned
    /\ \E k \in StateIndices :
          /\ OutDegree(model, k) > 0
          /\ At(LabelledNorm(model, frame.pairs, frame.estimate), k) = <<0, 1>>
    /\ \E k \in StateIndices : \E l \in OutEdgesOf(k) :
          At(model.out_transition_log_probabilities, l) # BakedProbability(k, l)

(***************************************************************************)
(* Properties of bake: start and end                                       *)
(***************************************************************************)
\* C28: bake() never removes the start state or the end state from the graph,
\* for every builder graph and every merge policy (including graphs in which
\* end has an outgoing edge of probability 1), so start_index and end_index
\* are always defined after bake
C28_StartAndEndKept ==
    pc # "build" => (start \in graph.nodes /\ end \in graph.nodes)


(***************************************************************************)
(* The Viterbi traceback                                                   *)
(***************************************************************************)
\* the back-pointer of cell (px, py) was written by the fill
Written(t, px, py) == At(At(t, px), py).tx >= 0 /\ At(At(t, px), py).ty >= 0

\* the walk of the last viterbi call: from its last cell down to
\* (0, start_index), every cell left through a back-pointer the fill wrote
\* and leading to the cell before it on the path
TracebackWalk(t, path) ==
    /\ path[1] = <<0, model.start_index>>
    /\ \A j \in 2..Len(path) :
          /\ Written(t, path[j][1], path[j][2])
          /\ At(At(t, path[j][1]), path[j][2]).tx = path[j - 1][1]
          /\ At(At(t, path[j][1]), path[j][2]).ty = path[j - 1][2]

\* C29: a viterbi call that finds a log likelihood other than -inf, in a
\* finite model from (n, end_index) and in an infinite one from the best cell
\* of the last row, ends its traceback in (0, start_index) within (n + 1) * m
\* steps and reads only back-pointers that the fill has written
C29_TracebackTerminates ==
    (Called("viterbi") /\ result.kind # "None") =>
        LET n == Len(result.sequence)
            t == ViterbiFill(model, parameters, result.sequence)
        IN /\ result.kind = "path"
           /\ Len(result.path) <= (n + 1) * Len(model.states)
           /\ result.path[Len(result.path)][1] = n
           /\ At(At(t, n), result.path[Len(result.path)][2]).v = result.log_likelihood
           /\ TracebackWalk(t, result.path)

\* a traceback of an infinite model that passes a silent state of row 0
C29_Witness ==
    /\ Called("viterbi") /\ model.finite = 0 /\ result.kind = "path"
    /\ \E j \in 2..Len(result.path) :
          result.path[j][1] = 0 /\ result.path[j][2] >= model.silent_start


(***************************************************************************)
(* Properties of log_probability(sequence, path)                           *)
(***************************************************************************)
\* the compiled model holds an edge from state index ki to state index ji
Joined(ki, ji) ==
    \E l \in At(model.out_edge_count, ki)..(At(model.out_edge_count, ki + 1) - 1) :
        At(model.out_transitions, l) = ji

\* position j of the path follows a state it is not joined to
MissingEdgeAt(path, j) == ~Joined(At(path, j - 1), At(path, j))

\* C30: log_probability(sequence, path) returns -inf whenever two consecutive
\* states of the path are not joined by an edge of the compiled model, also
\* when the earlier of the two has no out-edge at all
C30_MissingEdgeIsNegInf ==
    (/\ Called("log_probability_of_path")
     /\ \E j \in 1..(Len(result.path) - 1) : MissingEdgeAt(result.path, j)) =>
        result.value = NEGINF

\* the part of C30 the code keeps: the first missing edge of the path leaves
\* a state that has an out-edge, and every symbol read before it exists
C30_MissingEdgeAfterOutEdge ==
    (/\ Called("log_probability_of_path")
     /\ \E j \in 1..(Len(result.path) - 1) :
          /\ MissingEdgeAt(result.path, j)
          /\ \A i \in 1..(j - 1) : ~MissingEdgeAt(result.path, i)
          /\ At(model.out_edge_count, At(result.path, j - 1))
                < At(model.out_edge_count, At(result.path, j - 1) + 1)
          /\ Cardinality({i \in 1..(j - 1) : At(result.path, i) < model.silent_start})
                <= Len(result.sequence)) =>
        result.value = NEGINF

====
